---- MODULE Spec2Model ----
(***************************************************************************)
(* A model of the senlin engine kernel:                                    *)
(*   - the action store, dispatcher and worker (engine/actions/base.py:    *)
(*     Action.set_status, ActionProc) over a storage adapter whose         *)
(*     primitives are described in section 4.1 of the specification;       *)
(*   - the policy check pipeline (Action.policy_check, _check_result).     *)
(***************************************************************************)
EXTENDS Integers, Sequences, FiniteSets, TLC

(***************************************************************************)
(* Bounds of the model.                                                    *)
(***************************************************************************)
NumActions == 3
NumPolicies == 2
MaxTime == 2
CooldownSecs == 1
ActionTimeout == 1
MaxSize == 3
MaxEntries == 2

ActionIds == 1 .. NumActions
PolicyIds == 1 .. NumPolicies

\* the engines of the fleet; owner = None: no worker is working on the action
\* (base.py line 113)
Engines == {"engine-1", "engine-2"}
NoOwner == "None"

(***************************************************************************)
(* Action.RETURNS, Action.STATUSES (base.py lines 44-64).                  *)
(***************************************************************************)
RES_OK == "OK"
RES_ERROR == "ERROR"
RES_RETRY == "RETRY"
RES_CANCEL == "CANCEL"
RES_TIMEOUT == "TIMEOUT"
RETURNS == {RES_OK, RES_ERROR, RES_RETRY, RES_CANCEL, RES_TIMEOUT}

INIT == "INIT"
WAITING == "WAITING"
READY == "READY"
RUNNING == "RUNNING"
SUSPENDED == "SUSPENDED"
SUCCEEDED == "SUCCEEDED"
FAILED == "FAILED"
CANCELLED == "CANCELLED"
STATUSES == {INIT, WAITING, READY, RUNNING, SUSPENDED, SUCCEEDED, FAILED, CANCELLED}
TERMINAL == {SUCCEEDED, FAILED, CANCELLED}

\* Texts a reason or an exception message can be: empty, or some text.
Reasons == {"", "msg"}

\* Lock semantics (specification, section 3, Lock).
EXCLUSIVE == "EXCLUSIVE"
SHARED == "SHARED"
UNLOCKED == "UNLOCKED"

VARIABLES
    action,      \* storage: ActionIds -> [status, owner]
    deps,        \* storage: set of <<parent, child>> dependency edges
    clusterLock, \* storage: ActionIds -> scope held on the cluster, or UNLOCKED
    alive,       \* Engines -> BOOLEAN (engine-liveness table)
    worker,      \* Engines -> the worker thread of the engine and its Action object
    store,       \* storage: ActionIds -> [status, owner, status_reason], one worker
    proc,        \* the run of ActionProc by that worker and its Action object
    binding,     \* storage: PolicyIds -> the binding of the policy to the cluster
    now,         \* the wall clock
    check,       \* the last policy_check: its target, time, trace and action.data
    event,       \* the last event set_status has emitted (EVENT.info/warning/error)
    job,         \* storage: the row of one action with its pending signal and times
    thread,      \* the worker thread that executes that action, yield by yield
    catalog,     \* storage: PolicyIds -> the type of the policy object, if created
    cp,          \* storage: PolicyIds -> the ClusterPolicy binding to the cluster
    rt_policies, \* Cluster.rt['policies']: the cached list of attached policies
    last,        \* the last attach/detach call: its result and the state before it
    scaling,     \* a scaling-out policy, the cluster it checks and the last pre_op
    registry,    \* storage: the HealthRegistry rows
    hm,          \* Engines -> the health manager of the engine: rt and thread group
    hmcall,      \* the last call a health manager has served, and its state before
    hook,        \* the last call of a hook of the health policy, and what it did
    shrink,      \* the actions on a cluster with a health policy, check by check
    notice,      \* the last notification an endpoint has received, and what it did
    api,         \* the last list request of the REST API, key by key, and its answer
    hattach,     \* the last attach of a health policy: what register and attach returned
    saved        \* a Cluster object, its row in the storage and the object loaded from it

engineVars == <<action, deps, clusterLock, alive, worker>>
procVars == <<store, proc>>
policyVars == <<binding, now, check>>
signalVars == <<job, thread>>
attachVars == <<catalog, cp, rt_policies, last>>
healthVars == <<registry, hm, hmcall>>
shrinkVars == <<hook, shrink>>
otherVars == <<api, hattach, saved>>
nonEngine == <<procVars, policyVars, event, signalVars, attachVars, scaling, healthVars, shrinkVars, notice, otherVars>>
nonProc == <<engineVars, policyVars, event, signalVars, attachVars, scaling, healthVars, shrinkVars, notice, otherVars>>
nonPolicy == <<engineVars, procVars, event, signalVars, attachVars, scaling, healthVars, shrinkVars, notice, otherVars>>
nonSignal == <<engineVars, procVars, policyVars, event, attachVars, scaling, healthVars, shrinkVars, notice, otherVars>>
nonAttach == <<engineVars, procVars, policyVars, event, signalVars, scaling, healthVars, shrinkVars, notice, otherVars>>
nonScaling == <<engineVars, procVars, policyVars, event, signalVars, attachVars, healthVars, shrinkVars, notice, otherVars>>
nonHealth == <<engineVars, procVars, policyVars, event, signalVars, attachVars, scaling,
               shrinkVars, notice, otherVars>>
nonShrink == <<engineVars, procVars, policyVars, event, signalVars, attachVars, scaling,
               notice, otherVars>>
nonNotice == <<engineVars, procVars, policyVars, event, signalVars, attachVars, scaling,
               healthVars, shrinkVars, otherVars>>
nonOther == <<engineVars, procVars, policyVars, event, signalVars, attachVars, scaling,
              healthVars, shrinkVars, notice>>
vars == <<engineVars, procVars, policyVars, event, signalVars, attachVars, scaling, healthVars,
          shrinkVars, notice, otherVars>>

(***************************************************************************)
(* Storage adapter primitives (specification, section 4.1).                *)
(***************************************************************************)
Parents(d, c) == {p \in ActionIds : <<p, c>> \in d}
Children(d, p) == {c \in ActionIds : <<p, c>> \in d}

\* the parents of c whose edge is not resolved yet
Unresolved(act, d, c) == {p \in Parents(d, c) : act[p].status \notin TERMINAL}

RECURSIVE Descendants(_, _)
Descendants(d, S) ==
    LET T == S \cup UNION {Children(d, p) : p \in S}
    IN IF T = S THEN S ELSE Descendants(d, T)

\* the WAITING actions a failure of the actions in S cascades to
RECURSIVE FailedClosure(_, _, _)
FailedClosure(act, d, S) ==
    LET T == S \cup {c \in ActionIds : act[c].status = WAITING /\ Parents(d, c) \cap S # {}}
    IN IF T = S THEN S ELSE FailedClosure(act, d, T)

\* a selection that does not look at the status: a RUNNING action is handed out again
Acquirable_AnyStatus(act, d) ==
    {a \in ActionIds : act[a].status \in {READY, RUNNING} /\ Unresolved(act, d, a) = {}}

\* action_acquire_first_ready: the actions it may select
Acquirable(act, d) == {a \in ActionIds : act[a].status = READY /\ Unresolved(act, d, a) = {}}

\* action_acquire_first_ready(owner, now): one atomic update of the selected row
DbAcquire(act, a, owner) ==
    [act EXCEPT ![a] = [@ EXCEPT !.status = RUNNING, !.owner = owner]]

\* a promotion that does not wait for the counter to reach 0
DbMarkSucceeded_PromoteAtOnce(act, d, a) ==
    LET done == [act EXCEPT ![a] = [@ EXCEPT !.status = SUCCEEDED, !.owner = NoOwner]]
    IN [c \in ActionIds |->
          IF c \in Children(d, a) /\ done[c].status = WAITING
          THEN [done[c] EXCEPT !.status = READY]
          ELSE done[c]]

\* action_mark_succeeded: terminal status, owner cleared, dependents promoted
DbMarkSucceeded(act, d, a) ==
    LET done == [act EXCEPT ![a] = [@ EXCEPT !.status = SUCCEEDED, !.owner = NoOwner]]
    IN [c \in ActionIds |->
          IF c \in Children(d, a) /\ done[c].status = WAITING /\ Unresolved(done, d, c) = {}
          THEN [done[c] EXCEPT !.status = READY]
          ELSE done[c]]

\* a terminal update that leaves the owner in place
DbMarkEnded_KeepsOwner(act, d, a, status) ==
    LET done == [act EXCEPT ![a] = [@ EXCEPT !.status = status]]
        hit == FailedClosure(done, d, {a}) \ {a}
    IN [c \in ActionIds |->
          IF c \in hit THEN [done[c] EXCEPT !.status = FAILED] ELSE done[c]]

\* action_mark_failed / action_mark_cancelled: terminal status, owner cleared,
\* WAITING dependents fail (section 4.3, WAITING -> FAILED)
DbMarkEnded(act, d, a, status) ==
    LET done == [act EXCEPT ![a] = [@ EXCEPT !.status = status, !.owner = NoOwner]]
        hit == FailedClosure(done, d, {a}) \ {a}
    IN [c \in ActionIds |->
          IF c \in hit THEN [done[c] EXCEPT !.status = FAILED] ELSE done[c]]

DbMarkFailed(act, d, a) == DbMarkEnded(act, d, a, FAILED)

DbMarkCancelled(act, d, a) == DbMarkEnded(act, d, a, CANCELLED)

\* an abandon that leaves the owner in place
DbAbandon_KeepsOwner(act, a) == [act EXCEPT ![a] = [@ EXCEPT !.status = READY]]

\* action_abandon: owner cleared, status back to READY
DbAbandon(act, a) == [act EXCEPT ![a] = [@ EXCEPT !.status = READY, !.owner = NoOwner]]

\* the locks of action a are released
LockRelease(lk, a) == [lk EXCEPT ![a] = UNLOCKED]

\* the owner of the lock holder b is absent from the engine-liveness table
Stale(act, al, b) == act[b].owner # NoOwner /\ ~al[act[b].owner]

\* a lock manager that lets a SHARED request join whatever the holders' scope is
ClusterLockAcquire_SharedJoinsAny(lk, act, al, a, sc) ==
    LET others == {b \in ActionIds \ {a} : lk[b] # UNLOCKED}
    IN IF lk[a] # UNLOCKED THEN lk
       ELSE IF others = {} THEN [lk EXCEPT ![a] = sc]
       ELSE IF sc = SHARED THEN [lk EXCEPT ![a] = sc]
       ELSE IF \A b \in others : lk[b] = EXCLUSIVE /\ Stale(act, al, b)
            THEN [b \in ActionIds |-> IF b = a THEN sc ELSE UNLOCKED]
       ELSE lk

\* cluster_lock_acquire(cluster_id, action_id, scope): the new lock table, or
\* the table unchanged on CONTENTION
ClusterLockAcquire(lk, act, al, a, sc) ==
    LET others == {b \in ActionIds \ {a} : lk[b] # UNLOCKED}
    IN IF lk[a] # UNLOCKED THEN lk
       ELSE IF others = {} THEN [lk EXCEPT ![a] = sc]
       ELSE IF sc = SHARED /\ \A b \in others : lk[b] = SHARED THEN [lk EXCEPT ![a] = sc]
       ELSE IF \A b \in others : lk[b] = EXCLUSIVE /\ Stale(act, al, b)
            THEN [b \in ActionIds |-> IF b = a THEN sc ELSE UNLOCKED]
       ELSE lk

(***************************************************************************)
(* Action.set_status (base.py lines 327-364): the storage call it makes    *)
(* and the status and reason it leaves on the Action object.               *)
(***************************************************************************)
OrDefault(reason, default) == IF reason = "" THEN default ELSE reason

\* set_status without its RES_TIMEOUT branch: TIMEOUT falls through to the retry branch
set_status_NoTimeoutBranch(result, reason) ==
    IF result = RES_OK
    THEN [dbop |-> "action_mark_succeeded", dbreason |-> "", event |-> "info",
          status |-> SUCCEEDED, status_reason |-> reason]
    ELSE IF result = RES_ERROR
    THEN [dbop |-> "action_mark_failed", dbreason |-> OrDefault(reason, "ERROR"),
          event |-> "error", status |-> FAILED, status_reason |-> reason]
    ELSE IF result = RES_CANCEL
    THEN [dbop |-> "action_mark_cancelled", dbreason |-> "", event |-> "error",
          status |-> CANCELLED, status_reason |-> reason]
    ELSE [dbop |-> "action_abandon", dbreason |-> "", event |-> "warning",
          status |-> READY, status_reason |-> reason]

set_status(result, reason) ==
    IF result = RES_OK
    THEN [dbop |-> "action_mark_succeeded", dbreason |-> "", event |-> "info",
          status |-> SUCCEEDED, status_reason |-> reason]
    ELSE IF result = RES_ERROR
    THEN [dbop |-> "action_mark_failed", dbreason |-> OrDefault(reason, "ERROR"),
          event |-> "error", status |-> FAILED, status_reason |-> reason]
    ELSE IF result = RES_TIMEOUT
    THEN [dbop |-> "action_mark_failed", dbreason |-> OrDefault(reason, "TIMEOUT"),
          event |-> "error", status |-> FAILED, status_reason |-> reason]
    ELSE IF result = RES_CANCEL
    THEN [dbop |-> "action_mark_cancelled", dbreason |-> "", event |-> "error",
          status |-> CANCELLED, status_reason |-> reason]
    ELSE [dbop |-> "action_abandon", dbreason |-> "", event |-> "warning",
          status |-> READY, status_reason |-> reason]

\* the storage call of set_status applied to the action table
DbApply(act, d, a, st) ==
    IF st.dbop = "action_mark_succeeded" THEN DbMarkSucceeded(act, d, a)
    ELSE IF st.dbop = "action_mark_failed" THEN DbMarkFailed(act, d, a)
    ELSE IF st.dbop = "action_mark_cancelled" THEN DbMarkCancelled(act, d, a)
    ELSE DbAbandon(act, a)

\* terminal updates that release no lock
DbLocks_KeepLocks(lk, a, st) == lk

\* the terminal updates release the locks of the action; action_abandon does not
DbLocks(lk, a, st) == IF st.dbop = "action_abandon" THEN lk ELSE LockRelease(lk, a)

(***************************************************************************)
(* ActionProc (base.py lines 503-534).  execute() either returns           *)
(* (result, reason) or raises an exception with a message text.            *)
(***************************************************************************)
Outcomes ==
    [kind : {"return"}, result : RETURNS, reason : Reasons]
      \cup [kind : {"raise"}, result : {RES_ERROR}, reason : Reasons]

\* ActionProc without its except clause: the exception leaves ActionProc, and the
\* finally clause finds no result to record
ActionProcTry_NoExcept(out) ==
    IF out.kind = "raise"
    THEN [result |-> RES_ERROR, reason |-> out.reason, success |-> FALSE, escaped |-> TRUE]
    ELSE [result |-> out.result, reason |-> out.reason, success |-> TRUE, escaped |-> FALSE]

\* try / except Exception: what reaches the finally clause
ActionProcTry(out) ==
    IF out.kind = "raise"
    THEN [result |-> RES_ERROR, reason |-> out.reason, success |-> FALSE, escaped |-> FALSE]
    ELSE [result |-> out.result, reason |-> out.reason, success |-> TRUE, escaped |-> FALSE]

IdleWorker == [pc |-> "idle", aid |-> 0]

EngineInit ==
    /\ action = [a \in ActionIds |-> [status |-> INIT, owner |-> NoOwner]]
    /\ deps = {}
    /\ clusterLock = [a \in ActionIds |-> UNLOCKED]
    /\ alive = [e \in Engines |-> TRUE]
    /\ worker = [e \in Engines |-> IdleWorker]

\* Action.create with no parents: the action is stored READY
CreateReady(a) ==
    /\ action[a].status = INIT
    /\ Parents(deps, a) = {}
    /\ action' = [action EXCEPT ![a].status = READY]
    /\ UNCHANGED <<deps, clusterLock, alive, worker, nonEngine>>

\* action_add_dependency(parent_ids, child_id)
AddDependency(ps, c) ==
    /\ action[c].status = INIT
    /\ ps # {}
    /\ c \notin ps
    /\ Parents(deps, c) = {}
    /\ ps \cap Descendants(deps, {c}) = {}
    /\ deps' = deps \cup {<<p, c>> : p \in ps}
    /\ action' = [action EXCEPT ![c].status =
                    IF \E p \in ps : action[p].status \notin TERMINAL THEN WAITING
                    ELSE IF \A p \in ps : action[p].status = SUCCEEDED THEN READY
                    ELSE @]
    /\ UNCHANGED <<clusterLock, alive, worker, nonEngine>>

\* the dispatcher of engine e: acquire_first_ready hands an action to a worker
\* thread
Acquire(e, a) ==
    /\ alive[e]
    /\ worker[e].pc = "idle"
    /\ a \in Acquirable(action, deps)
    /\ action' = DbAcquire(action, a, e)
    /\ worker' = [worker EXCEPT ![e] = [IdleWorker EXCEPT !.pc = "acquired", !.aid = a]]
    /\ UNCHANGED <<deps, clusterLock, alive, nonEngine>>

\* ActionProc, step 1: Action.load materializes the action object; execute()
\* starts and its executor asks for the cluster lock (section 4.4, step 1)
ProcStart(e, sc) ==
    /\ alive[e]
    /\ worker[e].pc = "acquired"
    /\ LET a == worker[e].aid
           lk == ClusterLockAcquire(clusterLock, action, alive, a, sc)
       IN /\ clusterLock' = lk
          /\ worker' = [worker EXCEPT ![e].pc =
                          IF lk[a] = UNLOCKED THEN "contended" ELSE "locked"]
    /\ UNCHANGED <<action, deps, alive, nonEngine>>

\* ActionProc, step 2 and the finally clause: execute() ends with `out',
\* set_status records it, ActionProc returns and the worker thread ends
WorkerFinish(e, out) ==
    /\ alive[e]
    /\ worker[e].pc \in {"acquired", "locked", "contended"}
    /\ worker[e].pc = "contended" => (out.kind = "return" /\ out.result = RES_RETRY)
    /\ LET a == worker[e].aid
           \* an executor that took no lock has started here: Action.load
           t == ActionProcTry(out)
           st == set_status(t.result, t.reason)
           \* an executor that returns has released its lock (section 4.4, step 6)
           lk == IF out.kind = "return" THEN LockRelease(clusterLock, a) ELSE clusterLock
       IN /\ action' = DbApply(action, deps, a, st)
          /\ clusterLock' = DbLocks(lk, a, st)
          /\ worker' = [worker EXCEPT ![e] = IdleWorker]

\* the end of ActionProc, the event log left aside
ProcFinish(e, out) ==
    /\ WorkerFinish(e, out)
    /\ UNCHANGED <<deps, alive, nonEngine>>

\* no event has been emitted yet
NoEvent == [aid |-> 0, level |-> "", status |-> "", locked |-> FALSE]

EventInit == event = NoEvent

\* the end of ActionProc with the event of set_status (base.py lines 356-361):
\* its level and status, and whether the action held a lock when execute() ended
ProcFinishLogged(e, out) ==
    /\ WorkerFinish(e, out)
    /\ LET t == ActionProcTry(out)
           st == set_status(t.result, t.reason)
       IN event' = [aid |-> worker[e].aid, level |-> st.event, status |-> st.status,
                    locked |-> out.kind = "raise" /\ clusterLock[worker[e].aid] # UNLOCKED]
    /\ UNCHANGED <<deps, alive, procVars, policyVars, signalVars, attachVars, scaling,
                   healthVars, shrinkVars, notice, otherVars>>

\* the engine process dies; its worker thread dies with it
EngineDie(e) ==
    /\ alive[e]
    /\ alive' = [alive EXCEPT ![e] = FALSE]
    /\ worker' = [worker EXCEPT ![e].pc = IF @ = "idle" THEN @ ELSE "dead"]
    /\ UNCHANGED <<action, deps, clusterLock, nonEngine>>

\* the engine process is running
Up(e) == alive[e] /\ worker[e].pc # "dead"

\* the engine process crashes: its threads are gone, its row of the
\* engine-liveness table is still there
EngineCrash(e) ==
    /\ Up(e)
    /\ worker' = [worker EXCEPT ![e].pc = "dead"]
    /\ UNCHANGED <<action, deps, clusterLock, alive, nonEngine>>

\* lock_retention_s after the crash the engine is absent from the
\* engine-liveness table
LivenessExpire(e) ==
    /\ alive[e]
    /\ worker[e].pc = "dead"
    /\ alive' = [alive EXCEPT ![e] = FALSE]
    /\ UNCHANGED <<action, deps, clusterLock, worker, nonEngine>>

\* a dispatcher poll that recovers no action
Recoverable_Never(act, al, x) == act[x].status = RUNNING /\ FALSE

\* the RUNNING actions the dispatcher poll of a surviving engine recovers:
\* those whose owner is absent from the engine-liveness table
Recoverable(act, al, x) == act[x].status = RUNNING /\ Stale(act, al, x)

\* the dispatcher poll of engine e finds action x of a stale owner (section 8,
\* scenario 6): x goes back to READY, or is marked FAILED when it is past its
\* timeout; its lock is taken away
Recover(e, x, expired) ==
    /\ Up(e)
    /\ Recoverable(action, alive, x)
    /\ action' = IF expired THEN DbMarkFailed(action, deps, x) ELSE DbAbandon(action, x)
    /\ clusterLock' = LockRelease(clusterLock, x)
    /\ UNCHANGED <<deps, alive, worker, nonEngine>>

(***************************************************************************)
(* One worker that runs ActionProc on the actions of the store, one at a   *)
(* time, with the reason column of the store and the Action object.        *)
(***************************************************************************)
NoRun ==
    [pc |-> "idle", aid |-> 0, kind |-> "", result |-> "", text |-> "",
     escaped |-> FALSE, success |-> FALSE, nset |-> 0,
     status |-> "", status_reason |-> "", dbop |-> "", dbreason |-> ""]

ProcInit ==
    /\ store = [a \in ActionIds |-> [status |-> READY, owner |-> NoOwner, status_reason |-> ""]]
    /\ proc = NoRun

\* the dispatcher hands action a, acquired for engine e, to ActionProc
ProcAcquire(e, a) ==
    /\ proc.pc \in {"idle", "ended"}
    /\ a \in Acquirable(store, {})
    /\ store' = DbAcquire(store, a, e)
    /\ proc' = [NoRun EXCEPT !.pc = "running", !.aid = a]
    /\ UNCHANGED nonProc

\* the storage after the call set_status makes, reason column included
StoreApply(sto, a, st) ==
    [DbApply(sto, {}, a, st) EXCEPT ![a].status_reason =
        IF st.dbop = "action_mark_failed" THEN st.dbreason ELSE @]

\* ActionProc(context, action_id), the whole of it: load, execute() ending
\* with `out', the except and finally clauses, return
ActionProc(out) ==
    /\ proc.pc = "running"
    /\ LET a == proc.aid
           t == ActionProcTry(out)
           st == set_status(t.result, t.reason)
       IN IF t.escaped
          THEN /\ proc' = [proc EXCEPT !.pc = "ended", !.kind = out.kind,
                              !.result = out.result, !.text = out.reason,
                              !.escaped = TRUE, !.status = store[a].status,
                              !.status_reason = store[a].status_reason]
               /\ UNCHANGED store
          ELSE /\ store' = StoreApply(store, a, st)
               /\ proc' = [proc EXCEPT !.pc = "ended", !.kind = out.kind,
                              !.result = out.result, !.text = out.reason,
                              !.success = t.success, !.nset = @ + 1,
                              !.status = st.status, !.status_reason = st.status_reason,
                              !.dbop = st.dbop, !.dbreason = st.dbreason]
    /\ UNCHANGED nonProc

(***************************************************************************)
(* The policy check pipeline: Action.policy_check and Action._check_result *)
(* (base.py lines 394-468) over the enabled bindings of one cluster.       *)
(***************************************************************************)
CHECK_OK == "OK"
CHECK_ERROR == "ERROR"

\* last_op of a binding no AFTER check has recorded yet
NoTime == -1

\* policy.PRIORITY of the policy of binding p (lower = earlier): the first policy
\* sorts after the others, which tie
Priority(p) == IF p = 1 THEN 2 ELSE 1

\* the bindings of policies of one type have the same priority
SamePriority(p) == 1

\* what a hook does to action.data: nothing, or it sets status and reason
HookOutcomes == {"NONE", CHECK_OK, CHECK_ERROR}

DefaultData == [status |-> CHECK_OK, reason |-> <<"completed", 0>>]
NoCheck ==
    [pc |-> "idle", target |-> "", time |-> 0, data |-> DefaultData,
     trace |-> <<>>, todo |-> <<>>]

\* ClusterPolicy.load_all(context, cluster_id, sort, filters): the orders in
\* which the storage may return the bindings
load_all(bs, sort, enabledOnly) ==
    LET ids == {p \in PolicyIds : ~enabledOnly \/ bs[p].enabled}
        perms == {o \in [1 .. Cardinality(ids) -> ids] :
                    \A i, j \in DOMAIN o : i # j => o[i] # o[j]}
    IN IF sort = "priority"
       THEN {o \in perms : \A i, j \in DOMAIN o :
                              i < j => bs[o[i]].priority <= bs[o[j]].priority}
       ELSE perms

\* the bindings loaded without sort='priority'
LoadBindings_Unsorted(bs) == load_all(bs, "", TRUE)

\* the bindings policy_check iterates over (base.py lines 432-434)
LoadBindings(bs) == load_all(bs, "priority", TRUE)

\* ClusterPolicy.cooldown_inprogress(cooldown): now - last_op < cooldown
cooldown_inprogress(last_op, t, cooldown) == last_op # NoTime /\ t - last_op < cooldown

\* a _check_result that never aborts the checking
check_result_AlwaysContinue(data) == data.status \in {CHECK_OK, CHECK_ERROR}

\* Action._check_result(name): TRUE when the checking can be continued
check_result(data) == data.status = CHECK_OK

\* the call of pre_op / post_op on the policy of binding p
CallHook(data, p, outcome) ==
    IF outcome = "NONE" THEN data ELSE [status |-> outcome, reason |-> <<"hook", p>>]

\* an iteration that does not look at the cooldown of the policy
PolicyIteration_NoCooldown(data, pb, p, t, target, need, outcome) ==
    LET last_op == IF target = "AFTER" THEN t ELSE pb.last_op
        entry == [pid |-> p, need |-> need, hook |-> ""]
    IN IF ~need
       THEN [data |-> data, last_op |-> last_op, entry |-> entry, go |-> TRUE]
       ELSE LET called == CallHook(data, p, outcome)
            IN [data |-> called, last_op |-> last_op,
                entry |-> [entry EXCEPT !.hook = outcome], go |-> check_result(called)]

\* an iteration that looks at the cooldown before it asks need_check
PolicyIteration_CooldownFirst(data, pb, p, t, target, need, outcome) ==
    LET last_op == IF target = "AFTER" THEN t ELSE pb.last_op
        entry == [pid |-> p, need |-> need, hook |-> ""]
    IN IF pb.cooldown # 0
       THEN [data |-> IF cooldown_inprogress(last_op, t, pb.cooldown)
                      THEN [status |-> CHECK_ERROR, reason |-> <<"cooldown", p>>]
                      ELSE data,
             last_op |-> last_op, entry |-> entry, go |-> FALSE]
       ELSE PolicyIteration_NoCooldown(data, pb, p, t, target, need, outcome)

\* an iteration that records last_op whatever the target is
PolicyIteration_RecordAlways(data, pb, p, t, target, need, outcome) ==
    [PolicyIteration_NoCooldown(data, pb, p, t, target, need, outcome) EXCEPT !.last_op = t]

\* one iteration of the loop of policy_check, for binding pb (base.py lines
\* 440-467): action.data and pb.last_op after it, what it did, and whether the
\* loop goes on
PolicyIteration(data, pb, p, t, target, need, outcome) ==
    LET last_op == IF target = "AFTER" THEN t ELSE pb.last_op
        cooling == pb.cooldown # 0
        inprog == cooling /\ cooldown_inprogress(last_op, t, pb.cooldown)
        entry == [pid |-> p, need |-> need, hook |-> ""]
    IN IF ~need
       THEN [data |-> data, last_op |-> last_op, entry |-> entry, go |-> TRUE]
       ELSE IF cooling
       THEN [data |-> IF inprog
                      THEN [status |-> CHECK_ERROR, reason |-> <<"cooldown", p>>]
                      ELSE data,
             last_op |-> last_op, entry |-> entry, go |-> FALSE]
       ELSE LET called == CallHook(data, p, outcome)
            IN [data |-> called, last_op |-> last_op,
                entry |-> [entry EXCEPT !.hook = outcome], go |-> check_result(called)]

\* no policy is bound and enabled: the pipeline is not in use
PolicyParked ==
    /\ binding = [p \in PolicyIds |-> [priority |-> Priority(p), enabled |-> FALSE,
                                        cooldown |-> 0, last_op |-> NoTime]]
    /\ now = 0
    /\ check = NoCheck

\* policies attached to the cluster, enabled or not, with or without a cooldown
PolicyInit ==
    /\ binding \in [PolicyIds -> [priority : 1 .. 2, enabled : BOOLEAN,
                                   cooldown : {0, CooldownSecs}, last_op : {NoTime}]]
    /\ \/ \A p \in PolicyIds : binding[p].priority = Priority(p)
       \/ \A p \in PolicyIds : binding[p].priority = SamePriority(p)
    /\ now = 0
    /\ check = NoCheck

\* an action calls policy_check(cluster_id, target): lines 428-437, up to the
\* first binding
PolicyCheckCall(target, order) ==
    /\ check.pc \in {"idle", "returned"}
    /\ order \in LoadBindings(binding)
    /\ check' = IF target \notin {"BEFORE", "AFTER"}
                THEN [check EXCEPT !.pc = "returned", !.target = target, !.time = now,
                                   !.trace = <<>>, !.todo = <<>>]
                ELSE [pc |-> IF order = <<>> THEN "returned" ELSE "loop",
                      target |-> target, time |-> now, data |-> DefaultData,
                      trace |-> <<>>, todo |-> order]
    /\ UNCHANGED <<binding, now, nonPolicy>>

\* the loop of policy_check handles the next binding, whose policy answers
\* need_check with `need' and whose hook, if called, does `outcome'
PolicyCheckStep(need, outcome) ==
    /\ check.pc = "loop"
    /\ LET p == Head(check.todo)
           it == PolicyIteration(check.data, binding[p], p, now, check.target, need, outcome)
           rest == Tail(check.todo)
       IN /\ binding' = [binding EXCEPT ![p].last_op = it.last_op]
          /\ check' = [check EXCEPT !.data = it.data, !.trace = Append(@, it.entry),
                                    !.todo = rest,
                                    !.pc = IF it.go /\ rest # <<>> THEN "loop" ELSE "returned"]
    /\ UNCHANGED <<now, nonPolicy>>

\* time passes (between two checks)
Tick ==
    /\ check.pc # "loop"
    /\ now < MaxTime
    /\ now' = now + 1
    /\ UNCHANGED <<binding, check, nonPolicy>>

PolicyNext ==
    \/ \E target \in {"BEFORE", "AFTER", "OTHER"} :
       \E order \in LoadBindings(binding) : PolicyCheckCall(target, order)
    \/ \E need \in BOOLEAN : \E outcome \in HookOutcomes : PolicyCheckStep(need, outcome)
    \/ Tick

(***************************************************************************)
(* Signals and timeout (base.py lines 292-315 and 372-386): one action,    *)
(* the API that signals it and the worker that executes it and polls at    *)
(* its yield points (specification, section 5, suspension points).         *)
(***************************************************************************)
SIG_CANCEL == "CANCEL"
SIG_SUSPEND == "SUSPEND"
SIG_RESUME == "RESUME"
COMMANDS == {SIG_CANCEL, SIG_SUSPEND, SIG_RESUME}

\* action_signal_query finds no pending signal; the action has no timeout
NoSignal == "NONE"
NoTimeout == -1

\* a signal that every status admits
expected_statuses_Any(cmd) == STATUSES

\* Action.signal, lines 297-303
expected_statuses(cmd) ==
    IF cmd = SIG_CANCEL THEN {INIT, WAITING, READY, RUNNING}
    ELSE IF cmd = SIG_SUSPEND THEN {RUNNING}
    ELSE {SUSPENDED}

\* Action.signal(cmd): the row after it
signal(row, cmd) ==
    IF cmd \notin COMMANDS THEN row
    ELSE IF row.status \notin expected_statuses(cmd) THEN row
    ELSE [row EXCEPT !.pending = cmd]

\* an is_timeout that is true when the time is just used up
is_timeout_AtLimit(row, t) == t - row.start_time >= row.timeout

\* Action.is_timeout()
is_timeout(row, t) == t - row.start_time > row.timeout

\* Action._check_signal()
check_signal(row, t) ==
    IF row.timeout # NoTimeout /\ is_timeout(row, t) THEN RES_TIMEOUT ELSE row.pending

\* an is_cancelled that compares with the wrong command
is_cancelled_Suspend(row, t) == check_signal(row, t) = SIG_SUSPEND

\* Action.is_cancelled()
is_cancelled(row, t) == check_signal(row, t) = SIG_CANCEL

is_suspended(row, t) == check_signal(row, t) = SIG_SUSPEND

is_resumed(row, t) == check_signal(row, t) = SIG_RESUME

IdleThread == [pc |-> "idle", chk |-> "", cancelled |-> FALSE, result |-> ""]

SignalInit ==
    /\ job = [status |-> INIT, pending |-> NoSignal, start_time |-> 0, timeout |-> NoTimeout]
    /\ thread = IdleThread

\* the action is created with a timeout, or with none, and stored READY
JobCreate(tmo) ==
    /\ job.status = INIT
    /\ job' = [job EXCEPT !.status = READY, !.timeout = tmo]
    /\ UNCHANGED <<thread, nonSignal>>

\* acquire_first_ready: RUNNING, start_time = now; a worker thread starts
JobAcquire ==
    /\ job.status = READY
    /\ thread.pc \in {"idle", "ended"}
    /\ job' = [job EXCEPT !.status = RUNNING, !.start_time = now]
    /\ thread' = [IdleThread EXCEPT !.pc = "running"]
    /\ UNCHANGED nonSignal

\* the API loads the action and calls signal(cmd)
JobSignal(cmd) ==
    /\ job' = signal(job, cmd)
    /\ UNCHANGED <<thread, nonSignal>>

\* a yield point of the executor: it polls, and unwinds on TIMEOUT or CANCEL,
\* parks on SUSPEND, goes on otherwise
JobYield ==
    /\ thread.pc = "running"
    /\ LET chk == check_signal(job, now)
           polled == [thread EXCEPT !.chk = chk, !.cancelled = is_cancelled(job, now)]
       IN IF chk = RES_TIMEOUT
          THEN /\ thread' = [polled EXCEPT !.pc = "unwinding", !.result = RES_TIMEOUT]
               /\ UNCHANGED job
          ELSE IF is_cancelled(job, now)
          THEN /\ thread' = [polled EXCEPT !.pc = "unwinding", !.result = RES_CANCEL]
               /\ UNCHANGED job
          ELSE IF is_suspended(job, now)
          THEN /\ thread' = [polled EXCEPT !.pc = "parked"]
               /\ job' = [job EXCEPT !.status = SUSPENDED]
          ELSE /\ thread' = polled
               /\ UNCHANGED job
    /\ UNCHANGED nonSignal

\* the parked worker wakes up: the timeout is checked again, RESUME lets it run
JobWakeup ==
    /\ thread.pc = "parked"
    /\ LET chk == check_signal(job, now)
           polled == [thread EXCEPT !.chk = chk, !.cancelled = is_cancelled(job, now)]
       IN IF chk = RES_TIMEOUT
          THEN /\ thread' = [polled EXCEPT !.pc = "unwinding", !.result = RES_TIMEOUT]
               /\ UNCHANGED job
          ELSE IF is_resumed(job, now)
          THEN /\ thread' = [polled EXCEPT !.pc = "running"]
               /\ job' = [job EXCEPT !.status = RUNNING]
          ELSE /\ thread' = polled
               /\ UNCHANGED job
    /\ UNCHANGED nonSignal

\* the executor comes to its end between two yield points
JobBodyEnds(result) ==
    /\ thread.pc = "running"
    /\ thread' = [thread EXCEPT !.pc = "unwinding", !.result = result]
    /\ UNCHANGED <<job, nonSignal>>

\* execute() has returned: the finally clause of ActionProc calls set_status
JobFinish ==
    /\ thread.pc = "unwinding"
    /\ job' = [job EXCEPT !.status = set_status(thread.result, "").status]
    /\ thread' = [thread EXCEPT !.pc = "ended"]
    /\ UNCHANGED nonSignal

(***************************************************************************)
(* Cluster.attach_policy and Cluster.detach_policy (cluster.py lines       *)
(* 314-418) on one Cluster object, called with the cluster locked.         *)
(***************************************************************************)
\* policy types; a type is marked singleton or not
PolicyTypes == {"T1", "T2"}
singleton(type) == type = "T1"
NoPolicy == "none"
Unbound == "unbound"

\* the policies that have a binding to the cluster
Bound(bindings) == {p \in PolicyIds : bindings[p] # Unbound}

\* a check that finds no conflict of policy types
PolicyConflict_Ignored(cat, existing, policy_id) == existing \notin PolicyIds

\* attach_policy, line 334: existing.type == policy.type and policy.singleton
PolicyConflict(cat, existing, policy_id) ==
    cat[existing] = cat[policy_id] /\ singleton(cat[policy_id])

\* a loop that does not look for the policy itself
RECURSIVE AttachScan_ConflictOnly(_, _, _)
AttachScan_ConflictOnly(cat, policies, policy_id) ==
    IF policies = <<>> THEN "none"
    ELSE IF PolicyConflict(cat, Head(policies), policy_id) THEN "conflict"
    ELSE AttachScan_ConflictOnly(cat, Tail(policies), policy_id)

\* attach_policy, lines 328-342: the loop over self.rt['policies']
RECURSIVE AttachScan(_, _, _)
AttachScan(cat, policies, policy_id) ==
    IF policies = <<>> THEN "none"
    ELSE IF Head(policies) = policy_id THEN "attached"
    ELSE IF PolicyConflict(cat, Head(policies), policy_id) THEN "conflict"
    ELSE AttachScan(cat, Tail(policies), policy_id)

\* a list.remove that removes nothing
Remove_Nothing(policies, found) == IF found \in PolicyIds THEN policies ELSE <<>>

\* list.remove(found): the list without the first occurrence of found
RECURSIVE Remove(_, _)
Remove(policies, found) ==
    IF policies = <<>> THEN <<>>
    ELSE IF Head(policies) = found THEN Tail(policies)
    ELSE <<Head(policies)>> \o Remove(Tail(policies), found)

\* Cluster.attach_policy(ctx, policy_id, values), policy.attach(cluster)
\* answering `res': the result, the bindings and the cached list after it
attach_policy(cat, bindings, policies, policy_id, enabled, res) ==
    LET scan == AttachScan(cat, policies, policy_id)
    IN IF scan = "attached"
       THEN [res |-> TRUE, reason |-> "Policy already attached.",
             cp |-> bindings, rt |-> policies]
       ELSE IF scan = "conflict"
       THEN [res |-> FALSE, reason |-> "conflict", cp |-> bindings, rt |-> policies]
       ELSE IF ~res
       THEN [res |-> FALSE, reason |-> "callback", cp |-> bindings, rt |-> policies]
       ELSE [res |-> TRUE, reason |-> "Policy attached.",
             cp |-> [bindings EXCEPT ![policy_id] = IF enabled THEN "enabled" ELSE "disabled"],
             rt |-> Append(policies, policy_id)]

\* a detach_policy that does not look at the answer of policy.detach
detach_policy_IgnoreCallback(bindings, policies, policy_id, res) ==
    IF \A i \in DOMAIN policies : policies[i] # policy_id
    THEN [res |-> FALSE, reason |-> "Policy not attached.", cp |-> bindings, rt |-> policies]
    ELSE [res |-> TRUE, reason |-> "Policy detached.",
          cp |-> [bindings EXCEPT ![policy_id] = Unbound],
          rt |-> Remove(policies, policy_id)]

\* Cluster.detach_policy(ctx, policy_id), policy.detach(cluster) answering `res'
detach_policy(bindings, policies, policy_id, res) ==
    IF \A i \in DOMAIN policies : policies[i] # policy_id
    THEN [res |-> FALSE, reason |-> "Policy not attached.", cp |-> bindings, rt |-> policies]
    ELSE IF ~res
    THEN [res |-> FALSE, reason |-> "callback", cp |-> bindings, rt |-> policies]
    ELSE [res |-> TRUE, reason |-> "Policy detached.",
          cp |-> [bindings EXCEPT ![policy_id] = Unbound],
          rt |-> Remove(policies, policy_id)]

NoCall == [op |-> "none", pid |-> 0, res |-> FALSE, reason |-> "", cp0 |-> <<>>, rt0 |-> <<>>]

AttachInit ==
    /\ catalog = [p \in PolicyIds |-> NoPolicy]
    /\ cp = [p \in PolicyIds |-> Unbound]
    /\ rt_policies = <<>>
    /\ last = NoCall

\* a policy object of some type is created
PolicyCreate(p, type) ==
    /\ catalog[p] = NoPolicy
    /\ catalog' = [catalog EXCEPT ![p] = type]
    /\ UNCHANGED <<cp, rt_policies, last, nonAttach>>

\* the CLUSTER_ATTACH_POLICY action calls cluster.attach_policy
AttachPolicy(p, enabled, res) ==
    /\ catalog[p] # NoPolicy
    /\ LET r == attach_policy(catalog, cp, rt_policies, p, enabled, res)
       IN /\ cp' = r.cp
          /\ rt_policies' = r.rt
          /\ last' = [op |-> "attach", pid |-> p, res |-> r.res, reason |-> r.reason,
                       cp0 |-> cp, rt0 |-> rt_policies]
    /\ UNCHANGED <<catalog, nonAttach>>

\* the CLUSTER_DETACH_POLICY action calls cluster.detach_policy; after a
\* successful attach of the same policy the state before that attach is kept
DetachPolicy(p, res) ==
    /\ catalog[p] # NoPolicy
    /\ LET r == detach_policy(cp, rt_policies, p, res)
           trip == last.op = "attach" /\ last.pid = p /\ last.res /\ r.res
       IN /\ cp' = r.cp
          /\ rt_policies' = r.rt
          /\ last' = [op |-> IF trip THEN "attach;detach" ELSE "detach",
                       pid |-> p, res |-> r.res, reason |-> r.reason,
                       cp0 |-> IF trip THEN last.cp0 ELSE cp,
                       rt0 |-> IF trip THEN last.rt0 ELSE rt_policies]
    /\ UNCHANGED <<catalog, nonAttach>>

(***************************************************************************)
(* ScalingOutPolicy.pre_op (scaling_out_policy.py lines 97-135) as a       *)
(* function of the policy, the cluster and the inputs of the action.       *)
(***************************************************************************)
EXACT_CAPACITY == "EXACT_CAPACITY"
CHANGE_IN_CAPACITY == "CHANGE_IN_CAPACITY"
CHANGE_IN_PERCENTAGE == "CHANGE_IN_PERCENTAGE"
ADJUSTMENT_TYPES == {EXACT_CAPACITY, CHANGE_IN_CAPACITY, CHANGE_IN_PERCENTAGE}

\* the cluster has no upper limit of its size
Unbounded == -1
\* action.inputs, as the list of the values of its key 'count': none or one
NoInputs == <<>>
\* the sizes of a cluster, the adjustment numbers and the counts of a request
Sizes == 0 .. MaxSize
Numbers == (-1 .. MaxSize + 1) \cup {50, 150}
Counts == -1 .. MaxSize + 2
Inputs == {NoInputs} \cup {<<count>> : count \in Counts}

\* inputs.get('count', default)
get_count(inputs, default) == IF inputs = NoInputs THEN default ELSE inputs[1]

\* int(x / 100.0): the quotient, rounded towards zero
IntOfPercent(x) == IF x >= 0 THEN x \div 100 ELSE -((-x) \div 100)

\* abs(count)
abs(count) == IF count < 0 THEN -count ELSE count

\* pre_op, lines 102-109: the count the adjustment of the policy gives
adjustment_count(policy, current_size) ==
    IF policy.type = EXACT_CAPACITY THEN policy.number - current_size
    ELSE IF policy.type = CHANGE_IN_CAPACITY THEN policy.number
    ELSE LET count == IntOfPercent(policy.number * current_size)
         IN IF count < policy.min_step THEN policy.min_step ELSE count

\* a size check that also refuses to reach the maximum size
exceeds_max_size_AtLimit(current_size, count, max_size) ==
    current_size + count >= max_size

\* pre_op, line 119: current_size + count > cluster.max_size
exceeds_max_size(current_size, count, max_size) ==
    current_size + count > max_size

\* a best effort that keeps the requested count
best_effort_count_Requested(current_size, count, max_size) == count

\* pre_op, line 126: count = cluster.max_size - current_size
best_effort_count(current_size, count, max_size) == max_size - current_size

\* pre_op(cluster_id, action, policy_data): policy_data after it (its 'creation'
\* entry as the list of its counts: none or one), with the count that was checked
pre_op(policy, cluster, inputs) ==
    LET current_size == cluster.current_size
        count == get_count(inputs, adjustment_count(policy, current_size))
        \* lines 114-130: the status, the reason and the count of each branch
        checked ==
            IF count < 0
            THEN [status |-> CHECK_ERROR, reason |-> "negative count", count |-> count]
            ELSE IF exceeds_max_size(current_size, count, cluster.max_size)
            THEN IF ~policy.best_effort
                 THEN [status |-> CHECK_ERROR,
                       reason |-> "Attempted scaling exceeds maximum size",
                       count |-> count]
                 ELSE [status |-> CHECK_OK, reason |-> "Do best effort scaling",
                       count |-> best_effort_count(current_size, count, cluster.max_size)]
            ELSE [status |-> CHECK_OK, reason |-> "Scaling request validated",
                  count |-> count]
    \* lines 132-133: policy_data['creation'] = {'count': abs(count)}
    IN [status |-> checked.status, reason |-> checked.reason,
        creation |-> <<abs(checked.count)>>, count |-> count]

\* pre_op has not been called: policy_data has no 'creation' entry
NoData == [status |-> "", reason |-> "", creation |-> <<>>, count |-> 0]

\* the policy of the schema defaults and an empty cluster without upper limit
ScalingInit ==
    scaling = [policy |-> [type |-> CHANGE_IN_CAPACITY, number |-> 1, min_step |-> 1,
                           best_effort |-> FALSE],
               cluster |-> [current_size |-> 0, max_size |-> Unbounded],
               inputs |-> NoInputs,
               data |-> NoData]

\* a scaling-out policy is created from its spec
ScalingPolicyCreate(type, number, min_step, best_effort) ==
    /\ scaling' = [scaling EXCEPT
                     !.policy = [type |-> type, number |-> number, min_step |-> min_step,
                                 best_effort |-> best_effort],
                     !.inputs = NoInputs, !.data = NoData]
    /\ UNCHANGED nonScaling

\* the cluster gets a number of nodes and a maximum size the number respects
ClusterSize(current_size, max_size) ==
    /\ max_size = Unbounded \/ current_size <= max_size
    /\ scaling' = [scaling EXCEPT
                     !.cluster = [current_size |-> current_size, max_size |-> max_size],
                     !.inputs = NoInputs, !.data = NoData]
    /\ UNCHANGED nonScaling

\* a CLUSTER_SCALE_OUT action, with a count in its inputs or without, is checked
ScaleOutCheck(inputs) ==
    /\ scaling' = [scaling EXCEPT
                     !.inputs = inputs,
                     !.data = pre_op(scaling.policy, scaling.cluster, inputs)]
    /\ UNCHANGED nonScaling

(***************************************************************************)
(* The health manager (health_manager.py lines 104-346): the registry rows *)
(* of the storage, and for each engine the runtime registry rt and the     *)
(* thread group TG of its HealthManager.                                   *)
(***************************************************************************)
NODE_STATUS_POLLING == "NODE_STATUS_POLLING"
VM_LIFECYCLE_EVENTS == "VM_LIFECYCLE_EVENTS"
CheckTypes == {NODE_STATUS_POLLING, VM_LIFECYCLE_EVENTS}
Clusters == {"c1", "c2"}

\* entry['timer'] / entry['listener']: the key is absent, or it holds an object
\* that runs in the thread group, or one that has been stopped
NoHandle == "none"
Running == "running"
Stopped == "stopped"

\* objects.Cluster.get: a cluster that is registered for health checks exists
cluster_get(cluster_id) == cluster_id \in Clusters

\* the health manager of an engine that has not started, with its empty rt
\* (__init__, lines 106-117); tg counts the timers and listeners of the thread
\* group for each cluster
NoManager ==
    [state |-> "down", registries |-> <<>>, tg |-> [c \in Clusters |-> 0]]

\* the entry register_cluster and _load_runtime_registry build; `running' counts
\* the timers and listeners of the thread group that were started for the entry
NewEntry(cluster_id, check_type) ==
    [cluster_id |-> cluster_id, check_type |-> check_type, enabled |-> TRUE,
     timer |-> NoHandle, listener |-> NoHandle, running |-> 0]

\* _add_listener: a listener thread, or None when the cluster is not found
add_listener(cluster_id) == cluster_get(cluster_id)

\* _start_check(entry) on entry i of manager m: whether it returns the entry,
\* and the manager after it
start_check(m, i) ==
    LET entry == m.registries[i]
        c == entry.cluster_id
    IN IF entry.check_type = NODE_STATUS_POLLING
       THEN [ok |-> TRUE,
             m |-> [m EXCEPT !.registries[i].timer = Running,
                             !.registries[i].running = @ + 1,
                             !.tg[c] = @ + 1]]
       ELSE IF entry.check_type = VM_LIFECYCLE_EVENTS
       THEN IF add_listener(c)
            THEN [ok |-> TRUE,
                  m |-> [m EXCEPT !.registries[i].listener = Running,
                                  !.registries[i].running = @ + 1,
                                  !.tg[c] = @ + 1]]
            ELSE [ok |-> FALSE, m |-> m]
       ELSE [ok |-> FALSE, m |-> m]

\* a _stop_check that stops nothing
stop_check_Nothing(m, i, tolerant) == [raised |-> FALSE /\ tolerant, m |-> m]

\* _stop_check(entry) on entry i of manager m. TG.timer_done / TG.thread_done of
\* an object that is no longer in the thread group either does nothing
\* (tolerant) or raises, which ends the handler that called _stop_check
stop_check(m, i, tolerant) ==
    LET entry == m.registries[i]
        c == entry.cluster_id
    IN IF entry.timer # NoHandle
       THEN IF entry.timer = Running
            THEN [raised |-> FALSE,
                  m |-> [m EXCEPT !.registries[i].timer = Stopped,
                                  !.registries[i].running = @ - 1,
                                  !.tg[c] = @ - 1]]
            ELSE [raised |-> ~tolerant, m |-> m]
       ELSE IF entry.listener # NoHandle
       THEN IF entry.listener = Running
            THEN [raised |-> FALSE,
                  m |-> [m EXCEPT !.registries[i].listener = Stopped,
                                  !.registries[i].running = @ - 1,
                                  !.tg[c] = @ - 1]]
            ELSE [raised |-> ~tolerant, m |-> m]
       ELSE [raised |-> FALSE, m |-> m]

\* the entries of manager m that belong to the cluster
EntriesOf(m, cluster_id) ==
    {i \in DOMAIN m.registries : m.registries[i].cluster_id = cluster_id}

\* rt['registries'].pop(i)
Pop(registries, i) ==
    [j \in 1 .. Len(registries) - 1 |-> IF j < i THEN registries[j] ELSE registries[j + 1]]

\* register_cluster, lines 254-263: the entry is appended whatever _start_check
\* returns
register_cluster(m, cluster_id, check_type) ==
    LET appended == [m EXCEPT !.registries = Append(@, NewEntry(cluster_id, check_type))]
    IN start_check(appended, Len(appended.registries)).m

\* unregister_cluster, lines 272-276: the loop from entry i down to the first
RECURSIVE unregister_from(_, _, _, _)
unregister_from(m, i, cluster_id, tolerant) ==
    IF i = 0 THEN [raised |-> FALSE, m |-> m]
    ELSE IF m.registries[i].cluster_id = cluster_id
    THEN LET stopped == stop_check(m, i, tolerant)
         IN IF stopped.raised THEN stopped
            ELSE unregister_from([stopped.m EXCEPT !.registries = Pop(@, i)],
                                 i - 1, cluster_id, tolerant)
    ELSE unregister_from(m, i - 1, cluster_id, tolerant)

\* unregister_cluster: the manager after it, and whether it came to
\* HealthRegistry.delete (line 278)
unregister_cluster(m, cluster_id, tolerant) ==
    unregister_from(m, Len(m.registries), cluster_id, tolerant)

\* an enable_cluster that does not look at c['enabled']
enable_entry_Always(entry, cluster_id) == entry.cluster_id = cluster_id

\* enable_cluster, line 282: the entries it acts on
enable_entry(entry, cluster_id) == entry.cluster_id = cluster_id /\ ~entry.enabled

\* enable_cluster, lines 281-284: the loop from entry i to the last
RECURSIVE enable_from(_, _, _)
enable_from(m, i, cluster_id) ==
    IF i > Len(m.registries) THEN m
    ELSE IF enable_entry(m.registries[i], cluster_id)
    THEN enable_from(start_check([m EXCEPT !.registries[i].enabled = TRUE], i).m,
                     i + 1, cluster_id)
    ELSE enable_from(m, i + 1, cluster_id)

enable_cluster(m, cluster_id) == enable_from(m, 1, cluster_id)

\* disable_cluster, lines 287-290: the loop from entry i to the last
RECURSIVE disable_from(_, _, _, _)
disable_from(m, i, cluster_id, tolerant) ==
    IF i > Len(m.registries) THEN m
    ELSE IF m.registries[i].cluster_id = cluster_id /\ m.registries[i].enabled
    THEN LET stopped == stop_check([m EXCEPT !.registries[i].enabled = FALSE], i, tolerant)
         IN IF stopped.raised THEN stopped.m
            ELSE disable_from(stopped.m, i + 1, cluster_id, tolerant)
    ELSE disable_from(m, i + 1, cluster_id, tolerant)

disable_cluster(m, cluster_id, tolerant) == disable_from(m, 1, cluster_id, tolerant)

\* the engines whose health manager serves the RPC topic
UpEngines(managers) == {e \in Engines : managers[e].state = "up"}

\* db_api.registry_claim(engine_id): the rows whose owner is not a running engine
registry_claim(rows, managers) == {r \in rows : r.engine_id \notin UpEngines(managers)}

\* db_api.registry_delete(cluster_id)
registry_delete(rows, cluster_id) == {r \in rows : r.cluster_id # cluster_id}

\* _load_runtime_registry, lines 199-213: the claimed rows in some order; an
\* entry is appended only when _start_check returns it
RECURSIVE load_runtime_registry(_, _)
load_runtime_registry(m, claimed) ==
    IF claimed = {} THEN m
    ELSE LET r == CHOOSE x \in claimed : TRUE
             appended == [m EXCEPT !.registries =
                             Append(@, NewEntry(r.cluster_id, r.check_type))]
             started == start_check(appended, Len(appended.registries))
         IN load_runtime_registry(IF started.ok THEN started.m ELSE m, claimed \ {r})

\* notify(None, method): the call goes to the health manager topic without a
\* server; the engines that serve it are one of the running engines or all of
\* them ("Broadcast to all dispatchers", line 310)
Deliveries(managers) ==
    {{e} : e \in UpEngines(managers)} \cup ({UpEngines(managers)} \ {{}})

NoHmCall == [op |-> "none", engine |-> "", cluster_id |-> "", deleted |-> FALSE,
             before |-> NoManager]

HealthInit ==
    /\ registry = {}
    /\ hm = [e \in Engines |-> NoManager]
    /\ hmcall = NoHmCall

\* HealthManager.start (lines 215-222): the engine claims the rows of the engines
\* that do not run, and starts a check for each of them
HmStart(e) ==
    /\ hm[e].state = "down"
    /\ LET claimed == registry_claim(registry, hm)
       IN /\ registry' = (registry \ claimed)
                            \cup {[r EXCEPT !.engine_id = e] : r \in claimed}
          /\ hm' = [hm EXCEPT ![e] =
                      load_runtime_registry([NoManager EXCEPT !.state = "up"], claimed)]
    /\ UNCHANGED <<hmcall, nonHealth>>

\* the engine process fails: its threads, timers and listeners are gone
HmCrash(e) ==
    /\ hm[e].state = "up"
    /\ hm' = [hm EXCEPT ![e] = [NoManager EXCEPT !.state = "dead"]]
    /\ UNCHANGED <<registry, hmcall, nonHealth>>

\* the timer of line 221 fires: _dummy_task (lines 119-125) does nothing
HmDummyTask(e) ==
    /\ hm[e].state = "up"
    /\ UNCHANGED vars

\* register(cluster_id, ...) of the module: every engine of the delivery creates
\* a row of its own and an entry
HmRegister(to, cluster_id, check_type) ==
    /\ to \in Deliveries(hm)
    /\ \A e \in to : Len(hm[e].registries) < MaxEntries
    /\ registry' = registry \cup
          {[cluster_id |-> cluster_id, check_type |-> check_type, engine_id |-> e] : e \in to}
    /\ hm' = [e \in Engines |->
                IF e \in to THEN register_cluster(hm[e], cluster_id, check_type) ELSE hm[e]]

\* unregister(cluster_id) of the module
HmUnregister(to, cluster_id, tolerant) ==
    /\ to \in Deliveries(hm)
    /\ registry' = IF \E e \in to : ~unregister_cluster(hm[e], cluster_id, tolerant).raised
                   THEN registry_delete(registry, cluster_id)
                   ELSE registry
    /\ hm' = [e \in Engines |->
                IF e \in to THEN unregister_cluster(hm[e], cluster_id, tolerant).m ELSE hm[e]]

\* enable(cluster_id) of the module
HmEnable(to, cluster_id) ==
    /\ to \in Deliveries(hm)
    /\ hm' = [e \in Engines |->
                IF e \in to THEN enable_cluster(hm[e], cluster_id) ELSE hm[e]]
    /\ UNCHANGED registry

\* disable(cluster_id) of the module
HmDisable(to, cluster_id, tolerant) ==
    /\ to \in Deliveries(hm)
    /\ hm' = [e \in Engines |->
                IF e \in to THEN disable_cluster(hm[e], cluster_id, tolerant) ELSE hm[e]]
    /\ UNCHANGED registry

\* a call served by one health manager, with the state of the manager before it
HmServe(e, op, cluster_id, deleted) ==
    /\ hmcall' = [op |-> op, engine |-> e, cluster_id |-> cluster_id,
                  deleted |-> deleted, before |-> hm[e]]
    /\ UNCHANGED nonHealth

(***************************************************************************)
(* HealthPolicy.pre_op and post_op (health_policy.py lines 185-266), and   *)
(* the actions on a cluster that run them in their BEFORE and AFTER        *)
(* policy checks.                                                          *)
(***************************************************************************)
CLUSTER_SCALE_IN == "CLUSTER_SCALE_IN"
CLUSTER_DEL_NODES == "CLUSTER_DEL_NODES"
NODE_DELETE == "NODE_DELETE"
CLUSTER_RESIZE == "CLUSTER_RESIZE"
CLUSTER_CHECK == "CLUSTER_CHECK"
CLUSTER_RECOVER == "CLUSTER_RECOVER"
CLUSTER_SCALE_OUT == "CLUSTER_SCALE_OUT"
NODE_CREATE == "NODE_CREATE"
ACTION_NAMES ==
    {CLUSTER_SCALE_IN, CLUSTER_DEL_NODES, NODE_DELETE, CLUSTER_RESIZE,
     CLUSTER_CHECK, CLUSTER_RECOVER, CLUSTER_SCALE_OUT, NODE_CREATE}

\* HealthPolicy.TARGET, lines 29-40
TARGET ==
    {<<"BEFORE", CLUSTER_CHECK>>, <<"BEFORE", CLUSTER_DEL_NODES>>,
     <<"BEFORE", CLUSTER_RECOVER>>, <<"BEFORE", CLUSTER_RESIZE>>,
     <<"BEFORE", CLUSTER_SCALE_IN>>, <<"BEFORE", NODE_DELETE>>,
     <<"AFTER", CLUSTER_DEL_NODES>>, <<"AFTER", CLUSTER_SCALE_IN>>,
     <<"AFTER", CLUSTER_RESIZE>>, <<"AFTER", NODE_DELETE>>}

\* Policy.need_check(target, action): the predicate derived from TARGET
need_check(target, name) == <<target, name>> \in TARGET

\* a hook that does not know NODE_DELETE
SHRINK_ACTIONS_NoNodeDelete == {CLUSTER_SCALE_IN, CLUSTER_DEL_NODES}

\* pre_op, lines 197-199, and post_op, lines 241-243
SHRINK_ACTIONS == {CLUSTER_SCALE_IN, CLUSTER_DEL_NODES, NODE_DELETE}

\* scaleutils.parse_resize_params(action, db_cluster): its result, and whether
\* action.data has a 'deletion' entry after it
ParseResults == [res : {CHECK_OK, CHECK_ERROR}, deletion : BOOLEAN]

\* the hook has not been called
NoHook == [res |-> TRUE, calls |-> <<>>, status |-> "", deletion |-> FALSE, health |-> FALSE]

\* HealthPolicy.pre_op(cluster_id, action) for an action with this name, with or
\* without 'deletion' in its data: the result, the calls of the health manager
\* module, and the status, 'deletion' and 'health' entries of action.data
health_pre_op(name, deletion, parse) ==
    IF name \in SHRINK_ACTIONS
    THEN [NoHook EXCEPT !.calls = <<"disable">>, !.deletion = deletion]
    ELSE IF name = CLUSTER_RESIZE /\ deletion
    THEN [NoHook EXCEPT !.calls = <<"disable">>, !.deletion = deletion]
    ELSE IF name = CLUSTER_RESIZE /\ parse.res = CHECK_ERROR
    THEN [NoHook EXCEPT !.res = FALSE, !.status = CHECK_ERROR, !.deletion = parse.deletion]
    ELSE IF name = CLUSTER_RESIZE /\ parse.deletion
    THEN [NoHook EXCEPT !.calls = <<"disable">>, !.deletion = TRUE]
    ELSE [NoHook EXCEPT !.deletion = deletion, !.health = TRUE]

\* HealthPolicy.post_op(cluster_id, action)
health_post_op(name, deletion, parse) ==
    IF name \in SHRINK_ACTIONS
    THEN [NoHook EXCEPT !.calls = <<"enable">>, !.deletion = deletion]
    ELSE IF name = CLUSTER_RESIZE /\ deletion
    THEN [NoHook EXCEPT !.calls = <<"enable">>, !.deletion = deletion]
    ELSE IF name = CLUSTER_RESIZE /\ parse.res = CHECK_ERROR
    THEN [NoHook EXCEPT !.res = FALSE, !.status = CHECK_ERROR, !.deletion = parse.deletion]
    ELSE IF name = CLUSTER_RESIZE /\ parse.deletion
    THEN [NoHook EXCEPT !.calls = <<"enable">>, !.deletion = TRUE]
    ELSE [NoHook EXCEPT !.deletion = deletion]

NoHookCall ==
    [hook |-> "none", name |-> "", deletion |-> FALSE,
     parse |-> [res |-> CHECK_OK, deletion |-> FALSE], out |-> NoHook]

\* the actions of the cluster: not started, between their BEFORE and their AFTER
\* check ("window"), or ended
ShrinkIds == {1, 2}
NoShrink ==
    [name |-> "", phase |-> "idle", disabled |-> FALSE, enabled |-> FALSE,
     deletion |-> FALSE, status |-> INIT]

ShrinkInit ==
    /\ hook = NoHookCall
    /\ shrink = [a \in ShrinkIds |-> NoShrink]

\* a hook of the health policy is called on an action
HookCall(which, name, deletion, parse) ==
    /\ hook' = [hook |-> which, name |-> name, deletion |-> deletion, parse |-> parse,
                out |-> IF which = "pre_op" THEN health_pre_op(name, deletion, parse)
                        ELSE health_post_op(name, deletion, parse)]
    /\ UNCHANGED <<shrink, healthVars, nonShrink>>

\* the node actions take node locks only; the other actions take the cluster lock
NodeScope(name) == name \in {NODE_DELETE, NODE_CREATE}

\* steps (1) to (3) of an action: with the locks it needs, it runs
\* policy_check(cluster_id, 'BEFORE'), where the health policy is bound and a
\* policy that is checked after it may set CHECK_ERROR (`veto'); a CHECK_ERROR
\* ends the action as FAILED
ShrinkBefore(a, name, deletion, parse, veto, tolerant) ==
    /\ shrink[a].phase = "idle"
    /\ EntriesOf(hm["engine-1"], "c1") # {}
    /\ NodeScope(name) \/ \A b \in ShrinkIds :
                              shrink[b].phase = "window" => NodeScope(shrink[b].name)
    /\ LET out == IF need_check("BEFORE", name) THEN health_pre_op(name, deletion, parse)
                  ELSE [NoHook EXCEPT !.deletion = deletion]
       IN /\ IF out.calls = <<"disable">>
             THEN HmDisable({"engine-1"}, "c1", tolerant)
             ELSE UNCHANGED <<registry, hm>>
          /\ shrink' = [shrink EXCEPT ![a] =
                          [name |-> name,
                           phase |-> IF out.res /\ ~veto THEN "window" ELSE "done",
                           disabled |-> out.calls = <<"disable">>,
                           enabled |-> FALSE,
                           deletion |-> out.deletion,
                           status |-> IF out.res /\ ~veto THEN RUNNING ELSE FAILED]]
    /\ UNCHANGED <<hmcall, hook, nonShrink>>

\* steps (4) to (6): the body has ended with `result', the action runs
\* policy_check(cluster_id, 'AFTER') and ends
ShrinkAfter(a, result, parse) ==
    /\ shrink[a].phase = "window"
    /\ LET name == shrink[a].name
           out == IF need_check("AFTER", name)
                  THEN health_post_op(name, shrink[a].deletion, parse)
                  ELSE NoHook
       IN /\ IF out.calls = <<"enable">>
             THEN HmEnable({"engine-1"}, "c1")
             ELSE UNCHANGED <<registry, hm>>
          /\ shrink' = [shrink EXCEPT ![a].phase = "done",
                                      ![a].enabled = out.calls = <<"enable">>,
                                      ![a].status = set_status(result, "").status]
    /\ UNCHANGED <<hmcall, hook, nonShrink>>

\* a yield point of the body finds CANCEL or TIMEOUT: the remainder of the
\* action is unwound
ShrinkUnwind(a, result) ==
    /\ shrink[a].phase = "window"
    /\ shrink' = [shrink EXCEPT ![a].phase = "done",
                                ![a].status = set_status(result, "").status]
    /\ UNCHANGED <<hook, healthVars, nonShrink>>

(***************************************************************************)
(* NotificationEndpoint.info (health_manager.py lines 36-74): the endpoint *)
(* of the listener of one cluster receives a notification.                 *)
(***************************************************************************)
EventTypes ==
    {"compute.instance.delete.end", "compute.instance.pause.end",
     "compute.instance.power_off.end", "compute.instance.rebuild.error",
     "compute.instance.shutdown.end", "compute.instance.soft_delete.end",
     "compute.instance.create.end", "compute.instance.rebuild.end"}

\* a table that has a reason for every event
VM_FAILURE_EVENTS_Every == [e \in EventTypes |-> "ANY"]

\* NotificationEndpoint.VM_FAILURE_EVENTS, lines 38-45
VM_FAILURE_EVENTS ==
    [e \in {"compute.instance.delete.end", "compute.instance.pause.end",
             "compute.instance.power_off.end", "compute.instance.rebuild.error",
             "compute.instance.shutdown.end", "compute.instance.soft_delete.end"} |->
        CASE e = "compute.instance.delete.end" -> "DELETE"
          [] e = "compute.instance.pause.end" -> "PAUSE"
          [] e = "compute.instance.power_off.end" -> "POWER_OFF"
          [] e = "compute.instance.rebuild.error" -> "REBUILD"
          [] e = "compute.instance.shutdown.end" -> "SHUTDOWN"
          [] e = "compute.instance.soft_delete.end" -> "SOFT_DELETE"]

\* a key a dict does not have
Missing == "None"
\* payload['metadata']: the 'cluster_id' and 'cluster_node_id' of the server
NodeIds == {"n1", "n2"}
Metas == [cluster_id : Clusters \cup {Missing}, cluster_node_id : NodeIds \cup {Missing, ""}]
\* the payload of a notification, with its 'metadata' and 'user_id' or without
Payloads == [metadata : {<<>>} \cup {<<m>> : m \in Metas}, user_id : BOOLEAN]

\* info(ctxt, publisher_id, event_type, payload, metadata) of the endpoint of
\* cluster_id, the metadata argument with a 'timestamp' or without: whether it
\* raised, and the node_recover calls it made
info(cluster_id, event_type, payload, timestamp) ==
    IF payload.metadata = <<>>
    THEN [raised |-> TRUE, recover |-> <<>>]
    ELSE LET meta == payload.metadata[1]
             node_id == meta.cluster_node_id
         IN IF meta.cluster_id # cluster_id
            THEN [raised |-> FALSE, recover |-> <<>>]
            ELSE IF event_type \notin DOMAIN VM_FAILURE_EVENTS
            THEN [raised |-> FALSE, recover |-> <<>>]
            ELSE IF ~timestamp
            THEN [raised |-> TRUE, recover |-> <<>>]
            ELSE IF node_id \in {Missing, ""}
            THEN [raised |-> FALSE, recover |-> <<>>]
            ELSE IF ~payload.user_id
            THEN [raised |-> TRUE, recover |-> <<>>]
            ELSE [raised |-> FALSE,
                  recover |-> <<[node_id |-> node_id,
                                 event |-> VM_FAILURE_EVENTS[event_type]]>>]

NoNotice ==
    [endpoint |-> Missing, event_type |-> "",
     payload |-> [metadata |-> <<>>, user_id |-> FALSE], timestamp |-> FALSE,
     out |-> [raised |-> FALSE, recover |-> <<>>]]

NoticeInit == notice = NoNotice

\* the listener of a cluster hands a notification to its endpoint
Notify(cluster_id, event_type, payload, timestamp) ==
    /\ notice' = [endpoint |-> cluster_id, event_type |-> event_type, payload |-> payload,
                  timestamp |-> timestamp,
                  out |-> info(cluster_id, event_type, payload, timestamp)]
    /\ UNCHANGED nonNotice

(***************************************************************************)
(* The list endpoints of the REST API: ActionController.index (actions.py  *)
(* lines 58-94), ProfileController.index (profiles.py lines 53-89) and     *)
(* NodeController.index (nodes.py lines 69-100).                           *)
(***************************************************************************)
Endpoints == {"actions", "profiles", "nodes"}
\* the keys a query may carry
QueryKeys ==
    {"name", "target", "status", "type", "cluster_id", "limit", "sort", "bogus"}

\* filter_whitelist of the index method of the endpoint
filter_whitelist(endpoint) ==
    CASE endpoint = "actions" -> {"name", "target", "action", "status"}
      [] endpoint = "profiles" -> {"name", "type", "metadata"}
      [] endpoint = "nodes" -> {"status", "name"}

\* param_whitelist of the index method of the endpoint
param_whitelist(endpoint) ==
    CASE endpoint = "actions" -> {"limit", "marker", "sort", "global_project"}
      [] endpoint = "profiles" -> {"limit", "marker", "sort", "global_project"}
      [] endpoint = "nodes" -> {"cluster_id", "limit", "marker", "sort", "global_project"}

\* util.get_allowed_params(req.params, whitelist): the keys of the whitelist
get_allowed_params(keys, whitelist) == keys \cap whitelist

\* the loop over req.params.keys() that raises HTTPBadRequest: actions.py lines
\* 71-74, profiles.py lines 65-68; nodes.py has none
has_key_check(endpoint) == endpoint \in {"actions", "profiles"}

\* the request has not been answered
NoAnswer == [status |-> 0, forwarded |-> FALSE, params |-> {}, filters |-> {}]

\* index(req) of the endpoint for a query with these keys, whose 'limit', if
\* any, is an integer or not: the HTTP status, whether the list call went to the
\* engine, and the parameters and filters it went with
index(endpoint, keys, int_limit) ==
    LET params == get_allowed_params(keys, param_whitelist(endpoint))
        filters == get_allowed_params(keys, filter_whitelist(endpoint))
    IN IF has_key_check(endpoint)
          /\ \E key \in keys : key \notin param_whitelist(endpoint)
                                  /\ key \notin filter_whitelist(endpoint)
       THEN [NoAnswer EXCEPT !.status = 400]
       ELSE IF "limit" \in params /\ ~int_limit
       THEN [NoAnswer EXCEPT !.status = 400]
       ELSE [status |-> 200, forwarded |-> TRUE, params |-> params, filters |-> filters]

ApiInit ==
    api = [endpoint |-> "actions", keys |-> {}, int_limit |-> TRUE, out |-> NoAnswer]

\* a client prepares a list request to an endpoint
ApiRequest(endpoint, int_limit) ==
    /\ api' = [endpoint |-> endpoint, keys |-> {}, int_limit |-> int_limit, out |-> NoAnswer]
    /\ UNCHANGED <<hattach, saved, nonOther>>

\* the client adds a key to the query of the request
ApiAddKey(key) ==
    /\ api.out = NoAnswer
    /\ key \notin api.keys
    /\ api' = [api EXCEPT !.keys = @ \cup {key}]
    /\ UNCHANGED <<hattach, saved, nonOther>>

\* the request is sent and index answers it
ApiIndex ==
    /\ api.out = NoAnswer
    /\ api' = [api EXCEPT !.out = index(api.endpoint, api.keys, api.int_limit)]
    /\ UNCHANGED <<hattach, saved, nonOther>>

(***************************************************************************)
(* HealthPolicy.attach (health_policy.py lines 152-173) called by          *)
(* Cluster.attach_policy, with health_manager.register and notify          *)
(* (health_manager.py lines 293-333).                                      *)
(***************************************************************************)
\* notify(engine_id, method, ...): True when call_context.call returns, False
\* when it raises MessagingTimeout because no health manager has answered
notify(to) == to # {}

\* HealthPolicy.attach(cluster): the result it returns after
\* health_manager.register has returned `registered'
health_attach(registered) == TRUE

NoHealthAttach == [called |-> FALSE, pid |-> 0, registered |-> FALSE, res |-> FALSE]

HealthAttachInit == hattach = NoHealthAttach

\* a CLUSTER_ATTACH_POLICY action attaches health policy p: attach_policy calls
\* policy.attach unless the policy is attached or conflicts; the register call
\* reaches the health managers `to', or none of them in time
HealthPolicyAttach(p, enabled, check_type, to) ==
    /\ catalog[p] # NoPolicy
    /\ LET called == AttachScan(catalog, rt_policies, p) = "none"
           registered == notify(to)
           r == attach_policy(catalog, cp, rt_policies, p, enabled, health_attach(registered))
       IN /\ IF called /\ registered
             THEN HmRegister(to, "c1", check_type)
             ELSE to = {} /\ UNCHANGED <<registry, hm>>
          /\ cp' = r.cp
          /\ rt_policies' = r.rt
          /\ last' = [op |-> "attach", pid |-> p, res |-> r.res, reason |-> r.reason,
                       cp0 |-> cp, rt0 |-> rt_policies]
          /\ hattach' = [called |-> called, pid |-> p, registered |-> registered,
                          res |-> r.res]
    /\ UNCHANGED <<catalog, hmcall, api, saved, engineVars, procVars, policyVars, event,
                   signalVars, scaling, shrinkVars, notice>>

(***************************************************************************)
(* Cluster.__init__, Cluster.store and Cluster.load (cluster.py lines      *)
(* 50-188): the size limits and the timeout of a cluster on their way to   *)
(* the storage and back.                                                   *)
(***************************************************************************)
\* consts.CLUSTER_DEFAULT_MIN_SIZE, consts.CLUSTER_DEFAULT_MAX_SIZE and
\* cfg.CONF.default_action_timeout
CLUSTER_DEFAULT_MIN_SIZE == 0
CLUSTER_DEFAULT_MAX_SIZE == -1
default_action_timeout == 3600

\* the values the data model allows: min_size <= desired_capacity, and
\* max_size = -1 or desired_capacity <= max_size
ClusterValues ==
    {v \in [min_size : Sizes, max_size : {Unbounded} \cup Sizes,
             desired_capacity : Sizes, timeout : {1, 2}] :
        /\ v.min_size <= v.desired_capacity
        /\ v.max_size = Unbounded \/ v.desired_capacity <= v.max_size}

\* kwargs.get(key) or default: the default replaces a value that is None or 0
py_or(value, default) == IF value = 0 THEN default ELSE value

\* Cluster.__init__(name, desired_capacity, profile_id, **kwargs), lines 70-77
cluster_init(desired_capacity, kwargs) ==
    [min_size |-> py_or(kwargs.min_size, CLUSTER_DEFAULT_MIN_SIZE),
     max_size |-> py_or(kwargs.max_size, CLUSTER_DEFAULT_MAX_SIZE),
     desired_capacity |-> desired_capacity,
     timeout |-> py_or(kwargs.timeout, default_action_timeout)]

\* Cluster.store, lines 118-136: the values of the row
store_values(cluster) ==
    [min_size |-> cluster.min_size, max_size |-> cluster.max_size,
     desired_capacity |-> cluster.desired_capacity, timeout |-> cluster.timeout]

\* Cluster._from_object(context, obj), lines 151-177
from_object(obj) == cluster_init(obj.desired_capacity, obj)

\* a cluster as __init__ makes it from a desired capacity of 0, nothing stored
SavedInit ==
    saved = [cluster |-> cluster_init(0, [min_size |-> 0, max_size |-> 0, timeout |-> 0]),
             row |-> <<>>, loaded |-> <<>>]

\* an action (CLUSTER_RESIZE, CLUSTER_UPDATE) sets the limits, the capacity and
\* the timeout of the Cluster object
ClusterAssign(values) ==
    /\ saved' = [saved EXCEPT !.cluster = values]
    /\ UNCHANGED <<api, hattach, nonOther>>

\* cluster.store(context)
ClusterStore ==
    /\ saved' = [saved EXCEPT !.row = <<store_values(saved.cluster)>>, !.loaded = <<>>]
    /\ UNCHANGED <<api, hattach, nonOther>>

\* Cluster.load(context, cluster_id)
ClusterLoad ==
    /\ saved.row # <<>>
    /\ saved' = [saved EXCEPT !.loaded = <<from_object(saved.row[1])>>]
    /\ UNCHANGED <<api, hattach, nonOther>>

\* the state after construction: no action is stored READY yet in the fleet's
\* storage, the single worker's store holds its actions READY, no policy is bound
Init == EngineInit /\ ProcInit /\ PolicyParked /\ EventInit /\ SignalInit /\ AttachInit /\ ScalingInit /\ HealthInit
           /\ ShrinkInit /\ NoticeInit /\ ApiInit /\ HealthAttachInit
           /\ SavedInit

InitPolicy == EngineInit /\ ProcInit /\ PolicyInit /\ EventInit /\ SignalInit /\ AttachInit /\ ScalingInit /\ HealthInit
           /\ ShrinkInit /\ NoticeInit /\ ApiInit /\ HealthAttachInit
           /\ SavedInit

SpecPolicy == InitPolicy /\ [][PolicyNext]_vars

ProcNext ==
    \/ \E e \in Engines : \E a \in ActionIds : ProcAcquire(e, a)
    \/ \E out \in Outcomes : ActionProc(out)

SpecProc == Init /\ [][ProcNext]_vars

\* the dispatcher, the workers and the lock manager of a fleet whose engines may die
EngineNext ==
    \/ \E a \in ActionIds : CreateReady(a)
    \/ \E e \in Engines : \E a \in ActionIds : Acquire(e, a)
    \/ \E e \in Engines : \E sc \in {EXCLUSIVE, SHARED} : ProcStart(e, sc)
    \/ \E e \in Engines : \E out \in Outcomes : ProcFinish(e, out)
    \/ \E e \in Engines : EngineDie(e)

Spec == Init /\ [][EngineNext]_vars

\* the dispatcher and the workers over actions with dependency edges
DepsNext ==
    \/ \E a \in ActionIds : CreateReady(a)
    \/ \E c \in ActionIds : \E ps \in SUBSET ActionIds : AddDependency(ps, c)
    \/ \E e \in Engines : \E a \in ActionIds : Acquire(e, a)
    \/ \E e \in Engines : \E out \in Outcomes : ProcFinish(e, out)

SpecDeps == Init /\ [][DepsNext]_vars

\* the fleet with crashing engines, the retention window and the recovery of the
\* dispatcher poll
RecoverNext ==
    \/ \E a \in ActionIds : CreateReady(a)
    \/ \E e \in Engines : \E a \in ActionIds : Acquire(e, a)
    \/ \E e \in Engines : \E sc \in {EXCLUSIVE, SHARED} : ProcStart(e, sc)
    \/ \E e \in Engines : \E out \in Outcomes : ProcFinishLogged(e, out)
    \/ \E e \in Engines : EngineCrash(e)
    \/ \E e \in Engines : LivenessExpire(e)
    \/ \E e \in Engines : \E x \in ActionIds : \E expired \in BOOLEAN : Recover(e, x, expired)

SpecRecover == Init /\ [][RecoverNext]_vars

\* time passes, and the dispatcher of a running engine keeps polling
RecoverFairness ==
    /\ \A e \in Engines : WF_vars(LivenessExpire(e))
    /\ \A e \in Engines :
          WF_vars(\E x \in ActionIds : \E expired \in BOOLEAN : Recover(e, x, expired))

\* the same fleet, the event log left aside
OrphanNext ==
    \/ \E a \in ActionIds : CreateReady(a)
    \/ \E e \in Engines : \E a \in ActionIds : Acquire(e, a)
    \/ \E e \in Engines : \E sc \in {EXCLUSIVE, SHARED} : ProcStart(e, sc)
    \/ \E e \in Engines : \E out \in Outcomes : ProcFinish(e, out)
    \/ \E e \in Engines : EngineCrash(e)
    \/ \E e \in Engines : LivenessExpire(e)
    \/ \E e \in Engines : \E x \in ActionIds : \E expired \in BOOLEAN : Recover(e, x, expired)

SpecRecoverFair == Init /\ [][OrphanNext]_vars /\ RecoverFairness

\* policies are created, attached to the cluster and detached from it
AttachNext ==
    \/ \E p \in PolicyIds : \E type \in PolicyTypes : PolicyCreate(p, type)
    \/ \E p \in PolicyIds : \E enabled, res \in BOOLEAN : AttachPolicy(p, enabled, res)
    \/ \E p \in PolicyIds : \E res \in BOOLEAN : DetachPolicy(p, res)

SpecAttach == Init /\ [][AttachNext]_vars

\* scaling-out policies, clusters and the checks of scale-out requests
ScalingNext ==
    \/ \E type \in ADJUSTMENT_TYPES : \E number \in Numbers :
          \E min_step \in {0, 1} : \E best_effort \in BOOLEAN :
              ScalingPolicyCreate(type, number, min_step, best_effort)
    \/ \E current_size \in Sizes : \E max_size \in {Unbounded} \cup Sizes :
          ClusterSize(current_size, max_size)
    \/ \E inputs \in Inputs : ScaleOutCheck(inputs)

SpecScaling == Init /\ [][ScalingNext]_vars

\* health policies are created and attached while health managers start and fail
HealthAttachNext ==
    \/ \E e \in Engines : HmStart(e)
    \/ \E e \in Engines : HmCrash(e)
    \/ \E p \in PolicyIds : \E type \in PolicyTypes : PolicyCreate(p, type)
    \/ \E p \in PolicyIds : \E enabled \in BOOLEAN : \E check_type \in CheckTypes :
          \E to \in SUBSET Engines : HealthPolicyAttach(p, enabled, check_type, to)

SpecHealthAttach == Init /\ [][HealthAttachNext]_vars

\* a cluster is changed, stored and loaded
SavedNext ==
    \/ \E values \in ClusterValues : ClusterAssign(values)
    \/ ClusterStore
    \/ ClusterLoad

SpecSaved == Init /\ [][SavedNext]_vars

\* list requests to the endpoints of the API
ApiNext ==
    \/ \E endpoint \in Endpoints : \E int_limit \in BOOLEAN : ApiRequest(endpoint, int_limit)
    \/ \E key \in QueryKeys : ApiAddKey(key)
    \/ ApiIndex

SpecApi == Init /\ [][ApiNext]_vars

\* the endpoints of the listeners and the notifications they receive
NoticeNext ==
    \E cluster_id \in Clusters : \E event_type \in EventTypes : \E payload \in Payloads :
        \E timestamp \in BOOLEAN : Notify(cluster_id, event_type, payload, timestamp)

SpecNotice == Init /\ [][NoticeNext]_vars

\* the hooks of the health policy, called on every kind of action
HealthPolicyNext ==
    \E which \in {"pre_op", "post_op"} : \E name \in ACTION_NAMES :
        \E deletion \in BOOLEAN : \E parse \in ParseResults :
            HookCall(which, name, deletion, parse)

SpecHealthPolicy == Init /\ [][HealthPolicyNext]_vars

\* a cluster with a health policy: its health manager, the attaching of the
\* policy while no action is under way, and the actions of the cluster
ShrinkNext ==
    \/ HmStart("engine-1")
    \/ \E type \in CheckTypes :
          /\ \A a \in ShrinkIds : shrink[a].phase # "window"
          /\ HmRegister({"engine-1"}, "c1", type)
          /\ UNCHANGED <<hmcall, nonHealth>>
    \/ \E a \in ShrinkIds : \E name \in ACTION_NAMES : \E deletion, veto, tolerant \in BOOLEAN :
          \E parse \in ParseResults : ShrinkBefore(a, name, deletion, parse, veto, tolerant)
    \/ \E a \in ShrinkIds : \E result \in {RES_OK, RES_ERROR} : \E parse \in ParseResults :
          ShrinkAfter(a, result, parse)
    \/ \E a \in ShrinkIds : \E result \in {RES_CANCEL, RES_TIMEOUT} : ShrinkUnwind(a, result)

SpecShrink == Init /\ [][ShrinkNext]_vars

\* one health manager and the calls it serves
ManagerNext ==
    \/ HmStart("engine-1")
    \/ \E c \in Clusters : \E type \in CheckTypes :
          HmRegister({"engine-1"}, c, type) /\ HmServe("engine-1", "register", c, FALSE)
    \/ \E c \in Clusters : \E tolerant \in BOOLEAN :
          /\ HmUnregister({"engine-1"}, c, tolerant)
          /\ HmServe("engine-1", "unregister", c,
                     ~unregister_cluster(hm["engine-1"], c, tolerant).raised)
    \/ \E c \in Clusters :
          HmEnable({"engine-1"}, c) /\ HmServe("engine-1", "enable", c, FALSE)
    \/ \E c \in Clusters : \E tolerant \in BOOLEAN :
          HmDisable({"engine-1"}, c, tolerant) /\ HmServe("engine-1", "disable", c, FALSE)

SpecManager == Init /\ [][ManagerNext]_vars

\* the health managers of the fleet, with registrations of any check type: the
\* valid ones and one that _start_check does not know
RegistryNext ==
    \/ \E e \in Engines : HmStart(e)
    \/ \E e \in Engines : HmCrash(e)
    \/ \E to \in SUBSET Engines : \E type \in CheckTypes \cup {"UNKNOWN_TYPE"} :
          HmRegister(to, "c1", type) /\ UNCHANGED <<hmcall, nonHealth>>
    \/ \E to \in SUBSET Engines :
          HmEnable(to, "c1") /\ UNCHANGED <<hmcall, nonHealth>>
    \/ \E to \in SUBSET Engines : \E tolerant \in BOOLEAN :
          HmDisable(to, "c1", tolerant) /\ UNCHANGED <<hmcall, nonHealth>>

SpecRegistry == Init /\ [][RegistryNext]_vars

\* the health managers of the fleet: engines start and fail, calls are delivered
FleetHealthNext ==
    \/ \E e \in Engines : HmStart(e)
    \/ \E e \in Engines : HmCrash(e)
    \/ \E e \in Engines : HmDummyTask(e)
    \/ \E to \in SUBSET Engines : \E type \in CheckTypes :
          HmRegister(to, "c1", type) /\ UNCHANGED <<hmcall, nonHealth>>
    \/ \E to \in SUBSET Engines : \E tolerant \in BOOLEAN :
          HmUnregister(to, "c1", tolerant) /\ UNCHANGED <<hmcall, nonHealth>>
    \/ \E to \in SUBSET Engines : HmEnable(to, "c1") /\ UNCHANGED <<hmcall, nonHealth>>
    \/ \E to \in SUBSET Engines : \E tolerant \in BOOLEAN :
          HmDisable(to, "c1", tolerant) /\ UNCHANGED <<hmcall, nonHealth>>

\* the periodic timer of a running health manager keeps firing
FleetHealthFairness == \A e \in Engines : WF_vars(HmDummyTask(e))

SpecFleetHealth == Init /\ [][FleetHealthNext]_vars /\ FleetHealthFairness

\* one action, its signals, its worker and the clock
SignalNext ==
    \/ \E tmo \in {NoTimeout, 0, ActionTimeout} : JobCreate(tmo)
    \/ JobAcquire
    \/ \E cmd \in COMMANDS \cup {"OTHER"} : JobSignal(cmd)
    \/ JobYield
    \/ JobWakeup
    \/ \E result \in {RES_OK, RES_ERROR, RES_RETRY} : JobBodyEnds(result)
    \/ JobFinish
    \/ Tick

\* the worker thread is scheduled: it reaches its next yield point or its end,
\* and an execute() that has returned is followed by set_status
SignalFairness ==
    /\ WF_vars(JobYield \/ \E result \in {RES_OK, RES_ERROR, RES_RETRY} : JobBodyEnds(result))
    /\ WF_vars(JobFinish)

SpecSignal == Init /\ [][SignalNext]_vars /\ SignalFairness

(***************************************************************************)
(* Properties of ActionProc and set_status (SpecProc).                     *)
(***************************************************************************)

C2_StatusAfterActionProc ==
    proc.pc = "ended" =>
        LET expected ==
              IF proc.kind = "raise" THEN FAILED
              ELSE IF proc.result = RES_OK THEN SUCCEEDED
              ELSE IF proc.result \in {RES_ERROR, RES_TIMEOUT} THEN FAILED
              ELSE IF proc.result = RES_CANCEL THEN CANCELLED
              ELSE READY
        IN /\ proc.status # RUNNING
           /\ proc.status = expected
           /\ store[proc.aid].status = expected

C2_Witness ==
    /\ proc.pc = "ended" /\ proc.kind = "return" /\ proc.result = RES_TIMEOUT
    /\ proc.status = FAILED /\ store[proc.aid].status = FAILED

\* C12: whenever execute() ends with the result TIMEOUT, the action is recorded
\* FAILED and its status reason is exactly "TIMEOUT", in the storage and on the
\* Action object.
C12_TimeoutReason ==
    (proc.pc = "ended" /\ proc.kind = "return" /\ proc.result = RES_TIMEOUT) =>
        /\ proc.status = FAILED
        /\ store[proc.aid].status = FAILED
        /\ store[proc.aid].status_reason = "TIMEOUT"
        /\ proc.status_reason = "TIMEOUT"

(***************************************************************************)
(* Properties of the dispatcher and the lock manager (Spec).               *)
(***************************************************************************)
\* the live workers that are executing action a
Executing(a) ==
    {e \in Engines : alive[e] /\ worker[e].aid = a
                       /\ worker[e].pc \in {"acquired", "locked", "contended"}}

\* C3: a READY action is handed to at most one worker: at any time at most one
\* worker executes an action, and then the action is RUNNING and its owner is
\* that worker's engine.
C3_AtMostOneWorker ==
    \A a \in ActionIds :
        /\ Cardinality(Executing(a)) <= 1
        /\ \A e \in Executing(a) : action[a].status = RUNNING /\ action[a].owner = e

C3_Witness ==
    \E a, b \in ActionIds : \E e, f \in Engines :
        /\ a # b /\ e # f
        /\ Executing(a) = {e} /\ Executing(b) = {f}
        /\ action[a].owner = e /\ action[b].owner = f

\* C4: no two actions hold an EXCLUSIVE lock on the cluster at the same time, and
\* an EXCLUSIVE holder never coexists with a SHARED holder that is another action.
C4_ExclusiveLock ==
    \A a, b \in ActionIds :
        (a # b /\ clusterLock[a] = EXCLUSIVE) => clusterLock[b] = UNLOCKED

C4_Witness ==
    \E a, b \in ActionIds : \E e \in Engines :
        /\ a # b
        /\ clusterLock[a] = EXCLUSIVE /\ action[a].status = RUNNING
        /\ worker[e].aid = b /\ worker[e].pc = "contended" /\ action[b].status = RUNNING

(***************************************************************************)
(* Properties of the dependency edges (SpecDeps).                          *)
(***************************************************************************)
\* an action with dependency edges is not RUNNING while a parent is non-terminal
NeverRunsBeforeParents ==
    \A c \in ActionIds : action[c].status = RUNNING => Unresolved(action, deps, c) = {}

\* WAITING -> READY happens in the step in which the last non-terminal parent
\* becomes SUCCEEDED
ReadyOnLastSuccess ==
    \A c \in ActionIds :
        (action[c].status = WAITING /\ action'[c].status = READY) =>
            /\ Unresolved(action', deps', c) = {}
            /\ \E p \in Unresolved(action, deps, c) : action'[p].status = SUCCEEDED

\* C5 as stated: an action with dependency edges is WAITING exactly as long as
\* at least one of its parents is non-terminal (and never RUNNING meanwhile).
C5_WaitingIffParentPending ==
    /\ NeverRunsBeforeParents
    /\ \A c \in ActionIds :
          Parents(deps, c) # {} =>
              (action[c].status = WAITING <=> Unresolved(action, deps, c) # {})

\* C5, amended: an action with dependency edges is never RUNNING while a parent
\* is non-terminal; while a parent is non-terminal it is WAITING, unless the
\* failure or cancellation of another parent has made it FAILED already; it is
\* WAITING only while a parent is non-terminal; and it becomes READY only in the
\* step in which its last non-terminal parent reaches SUCCEEDED.
C5_WaitingUntilParentsEnd ==
    /\ [](/\ NeverRunsBeforeParents
          /\ \A c \in ActionIds :
                Parents(deps, c) # {} =>
                    /\ action[c].status = WAITING => Unresolved(action, deps, c) # {}
                    /\ Unresolved(action, deps, c) # {} =>
                          \/ action[c].status = WAITING
                          \/ /\ action[c].status = FAILED
                             /\ \E p \in Parents(deps, c) :
                                   action[p].status \in {FAILED, CANCELLED})
    /\ [][ReadyOnLastSuccess]_vars

C5_Witness ==
    \E c, p, q \in ActionIds :
        /\ p # q /\ {p, q} \subseteq Parents(deps, c)
        /\ action[p].status = SUCCEEDED /\ action[q].status = RUNNING
        /\ action[c].status = WAITING

(***************************************************************************)
(* Properties of signals and yield points (SpecSignal).                    *)
(***************************************************************************)
\* the action has exceeded its timeout
TimedOut == job.timeout # NoTimeout /\ now - job.start_time > job.timeout

C13_RetryReturnsToReady ==
    [][\A e \in Engines : \A r \in Reasons :
          ProcFinishLogged(e, [kind |-> "return", result |-> RES_RETRY, reason |-> r]) =>
              LET a == worker[e].aid
              IN /\ action'[a].status = READY
                 /\ action'[a].owner = NoOwner
                 /\ clusterLock'[a] = UNLOCKED
                 /\ a \in Acquirable(action', deps')]_vars

C13_Witness ==
    \E a \in ActionIds :
        /\ event.aid = a /\ event.status = READY /\ event.level = "warning"
        /\ action[a].status = READY /\ action[a].owner = NoOwner
        /\ clusterLock[a] = UNLOCKED
        /\ \E b \in ActionIds \ {a} : clusterLock[b] = EXCLUSIVE /\ action[b].status = RUNNING

\* C14: an action whose status is terminal holds no lock: the terminal update of
\* set_status releases the locks of the action in the step that sets the status.
C14_TerminalHoldsNoLock ==
    \A a \in ActionIds : action[a].status \in TERMINAL => clusterLock[a] = UNLOCKED

C14_Witness ==
    /\ event.aid \in ActionIds /\ event.locked /\ event.status = FAILED
    /\ action[event.aid].status = FAILED
    /\ clusterLock[event.aid] = UNLOCKED

\* C15: every action has one of the eight statuses, and every action whose
\* status is terminal has no owner.
C15_StatusAndOwner ==
    /\ event.status \in STATUSES \cup {""}
    /\ \A a \in ActionIds :
          /\ action[a].status \in STATUSES
          /\ action[a].status \in TERMINAL => action[a].owner = NoOwner

C15_Witness ==
    /\ \E a \in ActionIds : action[a].status = SUCCEEDED /\ action[a].owner = NoOwner
    /\ \E a \in ActionIds : action[a].status = CANCELLED /\ action[a].owner = NoOwner
    /\ \E a \in ActionIds :
          /\ action[a].status = FAILED /\ action[a].owner = NoOwner
          /\ \E e \in Engines : worker[e].pc = "dead" /\ worker[e].aid = a

\* action x is RUNNING and holds the cluster lock, and the engine that owns it
\* has crashed
Orphaned(x) ==
    /\ action[x].status = RUNNING
    /\ action[x].owner \in Engines
    /\ clusterLock[x] # UNLOCKED
    /\ worker[action[x].owner].pc = "dead" /\ worker[action[x].owner].aid = x

\* C16: an action that is RUNNING with the cluster lock on a crashed engine does
\* not stay RUNNING forever while an engine survives: it leaves RUNNING only once
\* its owner is absent from the liveness table, and then it is READY or FAILED,
\* without owner and without lock.
C16_OrphanIsRecovered ==
    /\ \A x \in ActionIds :
          Orphaned(x) ~> (action[x].status \in {READY, FAILED} \/ \A e \in Engines : ~Up(e))
    /\ [][\A x \in ActionIds :
            (Orphaned(x) /\ action'[x].status # RUNNING) =>
                /\ ~alive[action[x].owner]
                /\ action'[x].status \in {READY, FAILED}
                /\ action'[x].owner = NoOwner
                /\ clusterLock'[x] = UNLOCKED]_vars

C16_Witness ==
    \E x \in ActionIds : \E e \in Engines :
        /\ worker[e].pc = "dead" /\ worker[e].aid = x /\ ~alive[e]
        /\ action[x].status = RUNNING /\ action[x].owner \in Engines \ {e}
        /\ Up(action[x].owner) /\ worker[action[x].owner].aid = x
        /\ clusterLock[x] = EXCLUSIVE

(***************************************************************************)
(* Properties of attach_policy and detach_policy (SpecAttach).             *)
(***************************************************************************)
\* a policy other than p, of the type of p, is bound in `bindings'
SameTypeBound(bindings, p) ==
    \E q \in Bound(bindings) \ {p} : catalog[q] = catalog[p]

\* C17: after any sequence of attach_policy and detach_policy calls, the cluster
\* has at most one binding of each singleton policy type, in the storage and in
\* the cached list; attaching a second policy of a singleton type is refused and
\* changes neither of them.
C17_SingletonOnce ==
    /\ \A p \in Bound(cp) : singleton(catalog[p]) => ~SameTypeBound(cp, p)
    /\ \A i, j \in DOMAIN rt_policies :
          (i # j /\ catalog[rt_policies[i]] = catalog[rt_policies[j]])
              => ~singleton(catalog[rt_policies[i]])
    /\ (last.op = "attach" /\ singleton(catalog[last.pid])
            /\ SameTypeBound(last.cp0, last.pid)) =>
          /\ ~last.res
          /\ cp = last.cp0
          /\ rt_policies = last.rt0

C17_Witness ==
    /\ last.op = "attach" /\ ~last.res /\ last.reason = "conflict"
    /\ singleton(catalog[last.pid]) /\ SameTypeBound(cp, last.pid)
    /\ cp[last.pid] = Unbound /\ Len(rt_policies) = 1
    /\ cp = last.cp0 /\ rt_policies = last.rt0

\* C18 as stated: attach_policy(p) followed by detach_policy(p), both reporting
\* success, leaves the bindings of the cluster and its cached policy list as they
\* were before the attach.
C18_AttachDetachRestores ==
    last.op = "attach;detach" => (cp = last.cp0 /\ rt_policies = last.rt0)

\* C18, amended: attach_policy(p) followed by detach_policy(p), both reporting
\* success, leaves the bindings of the cluster and its cached policy list as they
\* were before the attach, provided p was not attached before the attach.
C18_AttachDetachRestoresNew ==
    (last.op = "attach;detach" /\ last.cp0[last.pid] = Unbound) =>
        (cp = last.cp0 /\ rt_policies = last.rt0)

C18_Witness ==
    /\ last.op = "attach;detach" /\ last.cp0[last.pid] = Unbound
    /\ Len(last.rt0) >= 1
    /\ cp = last.cp0 /\ rt_policies = last.rt0

(***************************************************************************)
(* Properties of ScalingOutPolicy.pre_op (SpecScaling).                    *)
(***************************************************************************)
\* pre_op has been called on the policy and the cluster of the state
Checked == scaling.data # NoData

\* C19: for a cluster with a bounded max_size and a scaling-out policy with
\* best_effort false, a count >= 0 gives CHECK_ERROR with the reason 'Attempted
\* scaling exceeds maximum size' exactly when current_size + count > max_size,
\* and CHECK_OK when current_size + count <= max_size; a count in the inputs of
\* the action is the count that is checked.
C19_StrictExceedsMaxSize ==
    (Checked /\ scaling.cluster.max_size # Unbounded /\ ~scaling.policy.best_effort
        /\ scaling.data.count >= 0) =>
        LET over == scaling.cluster.current_size + scaling.data.count
                        > scaling.cluster.max_size
        IN /\ scaling.inputs # NoInputs => scaling.data.count = scaling.inputs[1]
           /\ over <=> (scaling.data.status = CHECK_ERROR
                         /\ scaling.data.reason = "Attempted scaling exceeds maximum size")
           /\ ~over <=> scaling.data.status = CHECK_OK

C19_Witness ==
    /\ Checked /\ ~scaling.policy.best_effort
    /\ scaling.cluster = [current_size |-> 2, max_size |-> 3]
    /\ scaling.inputs = <<5>> /\ scaling.data.count = 5
    /\ scaling.data.status = CHECK_ERROR
    /\ scaling.data.reason = "Attempted scaling exceeds maximum size"

\* C20: for a cluster whose max_size is -1 (unbounded), every current size and
\* every count >= 0 give CHECK_OK and a written creation count equal to the
\* requested count.
C20_UnboundedNeverRejects ==
    (Checked /\ scaling.cluster.max_size = Unbounded /\ scaling.data.count >= 0) =>
        /\ scaling.data.status = CHECK_OK
        /\ scaling.data.creation = <<scaling.data.count>>

C22_NoCreationOnError ==
    (Checked /\ scaling.data.status = CHECK_ERROR) => scaling.data.creation = <<>>

(***************************************************************************)
(* Properties of the hooks of the health policy (SpecHealthPolicy,         *)
(* SpecShrink).                                                            *)
(***************************************************************************)
\* the action of the last hook call removes members of the cluster: it is
\* CLUSTER_SCALE_IN, CLUSTER_DEL_NODES, NODE_DELETE, or a CLUSTER_RESIZE that
\* deletes nodes
RemovesMembers ==
    \/ hook.name \in {CLUSTER_SCALE_IN, CLUSTER_DEL_NODES, NODE_DELETE}
    \/ /\ hook.name = CLUSTER_RESIZE
       /\ hook.deletion \/ (hook.parse.res = CHECK_OK /\ hook.parse.deletion)

\* C23: HealthPolicy.pre_op calls health_manager.disable exactly once if the
\* action is CLUSTER_SCALE_IN, CLUSTER_DEL_NODES, NODE_DELETE or a CLUSTER_RESIZE
\* that deletes nodes, and calls nothing for any other action; post_op calls
\* health_manager.enable exactly once for the same actions and nothing otherwise.
C23_DisableEnableOnce ==
    /\ hook.hook = "pre_op" =>
          hook.out.calls = IF RemovesMembers THEN <<"disable">> ELSE <<>>
    /\ hook.hook = "post_op" =>
          hook.out.calls = IF RemovesMembers THEN <<"enable">> ELSE <<>>

C23_Witness ==
    /\ hook.hook = "post_op" /\ hook.name = CLUSTER_RESIZE /\ ~hook.deletion
    /\ hook.parse = [res |-> CHECK_OK, deletion |-> TRUE]
    /\ hook.out.calls = <<"enable">> /\ hook.out.res

\* every entry of the cluster is enabled and has its timer or listener
HealthEnabled ==
    \A i \in EntriesOf(hm["engine-1"], "c1") :
        hm["engine-1"].registries[i].enabled /\ hm["engine-1"].registries[i].running = 1

\* C24: a member-removing action whose BEFORE check disabled health checking is
\* followed by enable: once it is terminal, whatever its outcome, and no other
\* action of the cluster is under way, health checking of the cluster is enabled.
C24_EnabledAfterTerminal ==
    \A a \in ShrinkIds :
        (/\ shrink[a].phase = "done" /\ shrink[a].disabled
         /\ \A b \in ShrinkIds : shrink[b].phase # "window") => HealthEnabled

\* C25: while a member-removing action is between its BEFORE check, which
\* disabled health checking, and its AFTER check, no timer and no listener of the
\* cluster runs, also when several such actions overlap.
C25_DisabledInWindow ==
    \A a \in ShrinkIds :
        (shrink[a].phase = "window" /\ shrink[a].disabled) => hm["engine-1"].tg["c1"] = 0

(***************************************************************************)
(* Properties of one health manager (SpecManager).                         *)
(***************************************************************************)
\* the timer or listener of the entry runs in the thread group
Checking(entry) == entry.timer = Running \/ entry.listener = Running

\* the last call was `op', served by a manager that had entry i then
Served(op, i) == hmcall.op = op /\ i \in DOMAIN hmcall.before.registries

C27_UnregisterRemovesAll ==
    hmcall.op = "unregister" =>
        /\ EntriesOf(hm[hmcall.engine], hmcall.cluster_id) = {}
        /\ hm[hmcall.engine].tg[hmcall.cluster_id] = 0
        /\ \A r \in registry : r.cluster_id # hmcall.cluster_id

(***************************************************************************)
(* Properties of the health managers of the fleet (SpecFleetHealth).       *)
(***************************************************************************)
\* the engines that own a registry row of the cluster
Owners(cluster_id) == {r.engine_id : r \in {x \in registry : x.cluster_id = cluster_id}}

\* the engines whose thread group runs a timer or listener for the cluster
Checkers(cluster_id) == {e \in Engines : hm[e].tg[cluster_id] > 0}

\* C28: at any time the registry entry of each cluster is owned by one engine
\* only, and at most one engine's health manager runs a timer or listener for the
\* cluster.
C28_OneOwnerOneChecker ==
    \A c \in Clusters :
        /\ Cardinality(Owners(c)) <= 1
        /\ Cardinality(Checkers(c)) <= 1

\* engine e has failed and still owns a registry row
Abandoned(e) == hm[e].state = "dead" /\ \E r \in registry : r.engine_id = e

\* C29: when an engine fails while another engine runs, the rows of the failed
\* engine are eventually claimed, and their checks started, by a running engine.
C29_SurvivorClaims ==
    \A e \in Engines :
        (Abandoned(e) /\ UpEngines(hm) # {})
            ~> (~Abandoned(e) \/ UpEngines(hm) = {})

(***************************************************************************)
(* Properties of NotificationEndpoint.info (SpecNotice).                   *)
(***************************************************************************)
\* the six event types of the failure-event table
FailureEvents ==
    {"compute.instance.delete.end", "compute.instance.pause.end",
     "compute.instance.power_off.end", "compute.instance.rebuild.error",
     "compute.instance.shutdown.end", "compute.instance.soft_delete.end"}

\* the last notification names the cluster of the endpoint, has an event type of
\* the table and carries a node id
Matches ==
    /\ notice.payload.metadata # <<>>
    /\ notice.payload.metadata[1].cluster_id = notice.endpoint
    /\ notice.event_type \in FailureEvents
    /\ notice.payload.metadata[1].cluster_node_id \in NodeIds

\* C30: an endpoint issues node_recover only for a notification whose payload
\* names the cluster of the endpoint, whose event type is one of the six entries
\* of the failure-event table and whose payload carries a node id, and then once
\* and for that node; every other notification triggers no recover request.
C30_RecoverOnlyOnMatch ==
    /\ ~Matches => notice.out.recover = <<>>
    /\ notice.out.recover # <<>> =>
          /\ Len(notice.out.recover) = 1
          /\ notice.out.recover[1].node_id = notice.payload.metadata[1].cluster_node_id

C30_Witness ==
    /\ notice.endpoint = "c2" /\ notice.event_type = "compute.instance.rebuild.error"
    /\ notice.payload.metadata = <<[cluster_id |-> "c2", cluster_node_id |-> "n1"]>>
    /\ notice.out.recover = <<[node_id |-> "n1", event |-> "REBUILD"]>>

(***************************************************************************)
(* Properties of the policy check pipeline (SpecPolicy).                   *)
(***************************************************************************)
\* the check stopped at entry i of its trace: nothing was handled after it
StoppedAt(i) == check.pc = "returned" /\ i = Len(check.trace)

\* the policy of the binding declares a cooldown
Cooling(p) == binding[p].cooldown # 0

\* the cooldown of the binding was in progress when the check looked at it
InProgress(p) ==
    binding[p].last_op # NoTime /\ check.time - binding[p].last_op < binding[p].cooldown

\* C6: once a hook leaves action.data['status'] at CHECK_ERROR, no hook of a later
\* binding is invoked in that check, and the check ends with CHECK_ERROR and the
\* reason that policy set.
C6_AbortOnCheckError ==
    \A i \in DOMAIN check.trace :
        check.trace[i].hook = CHECK_ERROR =>
            /\ StoppedAt(i)
            /\ check.data = [status |-> CHECK_ERROR, reason |-> <<"hook", check.trace[i].pid>>]

C6_Witness ==
    /\ check.pc = "returned" /\ check.trace # <<>> /\ check.todo # <<>>
    /\ check.trace[Len(check.trace)].hook = CHECK_ERROR
    /\ check.data.status = CHECK_ERROR

\* C7: policy_check handles only enabled bindings, in ascending order of
\* priority: no binding is handled, and no hook invoked, before one of a binding
\* with a lower priority number, and never for a disabled binding.
C7_EnabledInPriorityOrder ==
    \A i \in DOMAIN check.trace :
        /\ binding[check.trace[i].pid].enabled
        /\ \A j \in DOMAIN check.trace :
              i < j => binding[check.trace[i].pid].priority
                         <= binding[check.trace[j].pid].priority

C7_Witness ==
    /\ check.pc = "returned" /\ Len(check.trace) >= 2
    /\ check.trace[1].hook # "" /\ check.trace[2].hook # ""
    /\ check.trace[1].pid > check.trace[2].pid
    /\ binding[check.trace[1].pid].priority < binding[check.trace[2].pid].priority

\* C8: when the loop reaches an interested policy that declares a cooldown and
\* the cooldown of its binding is in progress, action.data becomes CHECK_ERROR
\* with the cooldown reason, the hook is not invoked and no further binding is
\* handled.
C8_CooldownStops ==
    \A i \in DOMAIN check.trace :
        LET e == check.trace[i]
        IN (e.need /\ Cooling(e.pid) /\ InProgress(e.pid)) =>
              /\ e.hook = ""
              /\ StoppedAt(i)
              /\ check.data = [status |-> CHECK_ERROR, reason |-> <<"cooldown", e.pid>>]

C8_Witness ==
    /\ check.pc = "returned" /\ check.target = "BEFORE"
    /\ check.trace # <<>> /\ check.todo # <<>>
    /\ LET e == check.trace[Len(check.trace)]
       IN /\ e.need /\ Cooling(e.pid) /\ InProgress(e.pid) /\ e.hook = ""
          /\ check.data = [status |-> CHECK_ERROR, reason |-> <<"cooldown", e.pid>>]

\* C9: when the loop reaches an interested policy that declares a cooldown and
\* the cooldown of its binding is not in progress, the hook of the policy is
\* invoked and the loop goes on with the following bindings as it does after
\* the hook of a policy without cooldown: it stops there only on CHECK_ERROR.
C9_IdleCooldownInvokesHook ==
    \A i \in DOMAIN check.trace :
        LET e == check.trace[i]
        IN (e.need /\ Cooling(e.pid) /\ ~InProgress(e.pid)) =>
              /\ e.hook # ""
              /\ (StoppedAt(i) /\ check.todo # <<>>) => check.data.status = CHECK_ERROR

\* C10: after policy_check for AFTER has returned, last_op of every enabled
\* binding of the cluster is the time of that check.
C10_LastOpForEveryBinding ==
    (check.pc = "returned" /\ check.target = "AFTER") =>
        \A p \in PolicyIds : binding[p].enabled => binding[p].last_op = check.time

\* C31: a binding whose policy answers need_check with false is skipped: its
\* hook is not invoked, its cooldown is not consulted, action.data stays as it
\* was, and the loop goes on with the bindings that follow.
C31_UninterestedIsSkipped ==
    [][(check.pc = "loop" /\ Len(check'.trace) = Len(check.trace) + 1
           /\ ~check'.trace[Len(check'.trace)].need) =>
          /\ check'.trace[Len(check'.trace)].hook = ""
          /\ check'.data = check.data
          /\ Tail(check.todo) # <<>> => (check'.pc = "loop" /\ check'.todo = Tail(check.todo))]_vars

C31_Witness ==
    /\ check.pc = "returned" /\ Len(check.trace) = 2 /\ check.target = "BEFORE"
    /\ ~check.trace[1].need /\ Cooling(check.trace[1].pid) /\ InProgress(check.trace[1].pid)
    /\ check.trace[2].need /\ check.trace[2].hook = CHECK_OK
    /\ check.data = [status |-> CHECK_OK, reason |-> <<"hook", check.trace[2].pid>>]

\* C32: policy_check for BEFORE never changes last_op of any binding; last_op
\* is written only by an iteration of an AFTER check.
C32_LastOpOnlyAfter ==
    [][(\E p \in PolicyIds : binding'[p].last_op # binding[p].last_op) =>
          (check.pc = "loop" /\ check.target = "AFTER")]_vars

C32_Witness ==
    /\ check.pc = "returned" /\ check.target = "BEFORE" /\ check.trace # <<>>
    /\ \E i \in DOMAIN check.trace :
          /\ check.trace[i].hook # ""
          /\ binding[check.trace[i].pid].last_op # NoTime
          /\ binding[check.trace[i].pid].last_op < check.time

(***************************************************************************)
(* Properties of the runtime registry of the health managers               *)
(* (SpecRegistry).                                                         *)
(***************************************************************************)
\* C38: every runtime registry entry that is marked enabled has a running timer
\* or listener: an entry whose check could not be started is never kept in the
\* runtime registry as enabled, neither after register_cluster nor after
\* enable_cluster nor after the initial load.
C38_EnabledEntryIsChecked ==
    \A e \in Engines : \A i \in DOMAIN hm[e].registries :
        hm[e].registries[i].enabled => Checking(hm[e].registries[i])

(***************************************************************************)
(* Properties of the attach of a health policy (SpecHealthAttach).         *)
(***************************************************************************)
\* C39: HealthPolicy.attach reports success only if the cluster was registered
\* with a health manager: when the register call times out, the attach reports
\* failure and no binding is created for the cluster.
C39_AttachFailsOnTimeout ==
    (hattach.called /\ ~hattach.registered) =>
        (~hattach.res /\ cp[hattach.pid] = Unbound)

(***************************************************************************)
(* Properties of storing and loading a cluster (SpecSaved).                *)
(***************************************************************************)
\* C40: storing a cluster and loading it again yields the min_size, max_size,
\* desired_capacity and timeout that were stored, for every value the data
\* model allows.
C40_StoreLoadRoundTrip ==
    saved.loaded # <<>> => saved.loaded[1] = saved.row[1]

(***************************************************************************)
(* Properties of the callbacks of attach_policy and detach_policy          *)
(* (SpecAttach).                                                           *)
(***************************************************************************)
\* the policy is in the cached list of the cluster
Attached(p) == \E i \in DOMAIN rt_policies : rt_policies[i] = p

\* C36: if policy.attach reports failure, attach_policy returns failure and
\* creates no binding; if policy.detach reports failure, detach_policy returns
\* failure and the binding and the cached policy list stay unchanged.
C36_CallbackFailure ==
    /\ \A p \in PolicyIds : \A enabled \in BOOLEAN :
          (catalog[p] # NoPolicy /\ ~Attached(p)) =>
              LET r == attach_policy(catalog, cp, rt_policies, p, enabled, FALSE)
              IN ~r.res /\ r.cp = cp /\ r.rt = rt_policies
    /\ \A p \in PolicyIds :
          Attached(p) =>
              LET r == detach_policy(cp, rt_policies, p, FALSE)
              IN ~r.res /\ r.cp = cp /\ r.rt = rt_policies
    /\ last.reason = "callback" => (~last.res /\ cp = last.cp0 /\ rt_policies = last.rt0)

C36_Witness ==
    /\ last.op = "detach" /\ last.reason = "callback" /\ ~last.res
    /\ Attached(last.pid) /\ cp[last.pid] # Unbound
    /\ cp = last.cp0 /\ rt_policies = last.rt0

\* C37: attaching a policy that is already attached returns success whatever
\* policy.attach would answer, and changes neither the bindings nor the cached
\* list; after any sequence of calls no policy is twice in the cached list and
\* the bindings are those of the policies in the list.
C37_AttachedOnce ==
    /\ \A p \in PolicyIds : \A enabled, res \in BOOLEAN :
          Attached(p) =>
              LET r == attach_policy(catalog, cp, rt_policies, p, enabled, res)
              IN r.res /\ r.reason = "Policy already attached."
                       /\ r.cp = cp /\ r.rt = rt_policies
    /\ \A i, j \in DOMAIN rt_policies : rt_policies[i] = rt_policies[j] => i = j
    /\ \A p \in PolicyIds : Attached(p) <=> cp[p] # Unbound

C37_Witness ==
    /\ last.op = "attach" /\ last.res /\ last.reason = "Policy already attached."
    /\ Attached(last.pid) /\ Len(rt_policies) = 2
    /\ cp = last.cp0 /\ rt_policies = last.rt0

(***************************************************************************)
(* Properties of Action.signal and Action._check_signal (SpecSignal).      *)
(***************************************************************************)
\* the status of an action admits the command
Admits(status, cmd) ==
    \/ cmd = "CANCEL" /\ status \in {"INIT", "WAITING", "READY", "RUNNING"}
    \/ cmd = "SUSPEND" /\ status = "RUNNING"
    \/ cmd = "RESUME" /\ status = "SUSPENDED"

\* C34: Action.signal writes a signal only when the status of the action admits
\* the command (CANCEL in INIT, WAITING, READY or RUNNING; SUSPEND in RUNNING;
\* RESUME in SUSPENDED), and then nothing but the pending signal changes; in
\* every other status and for an unknown command the record stays as it is.
C34_SignalOnlyIfAdmitted ==
    [][job'.pending # job.pending =>
          /\ Admits(job.status, job'.pending)
          /\ job' = [job EXCEPT !.pending = job'.pending]]_vars

C34_Witness ==
    /\ job.status = SUSPENDED /\ job.pending = SIG_RESUME /\ thread.pc = "parked"

\* C35: when an action has exceeded its timeout (now - start_time > timeout),
\* _check_signal reports TIMEOUT whatever signal is pending, and is_cancelled,
\* is_suspended and is_resumed do not report the pending signal; an executor that
\* polled TIMEOUT ends with TIMEOUT and the action FAILED, also with a pending
\* CANCEL; an action whose elapsed time equals its timeout is not timed out.
C35_TimeoutBeforeSignal ==
    /\ (job.timeout # NoTimeout /\ now - job.start_time > job.timeout) =>
          /\ check_signal(job, now) = RES_TIMEOUT
          /\ ~is_cancelled(job, now) /\ ~is_suspended(job, now) /\ ~is_resumed(job, now)
    /\ (job.timeout # NoTimeout /\ now - job.start_time = job.timeout) =>
          /\ check_signal(job, now) = job.pending
          /\ is_cancelled(job, now) <=> job.pending = SIG_CANCEL
    /\ (thread.chk = RES_TIMEOUT /\ thread.pc \in {"unwinding", "ended"}) =>
          thread.result = RES_TIMEOUT
    /\ (thread.chk = RES_TIMEOUT /\ thread.pc = "ended") => job.status = FAILED

C35_Witness ==
    /\ thread.pc = "ended" /\ thread.chk = RES_TIMEOUT /\ ~thread.cancelled
    /\ job.pending = SIG_CANCEL /\ job.status = FAILED
    /\ now - job.start_time > job.timeout

(***************************************************************************)
(* Properties of the list endpoints (SpecApi).                             *)
(***************************************************************************)
\* C33: every list endpoint answers a request that carries a query key outside
\* its parameter and filter whitelists with 400 Bad Request and does not
\* forward the request to the engine.
C33_UnknownKeyRejected ==
    (api.out # NoAnswer
        /\ api.keys \ (param_whitelist(api.endpoint) \cup filter_whitelist(api.endpoint)) # {})
        => (api.out.status = 400 /\ ~api.out.forwarded)

====
